---- MODULE Spec2Model ----
(***************************************************************************)
(* agent-backport: the job store (src/lib/jobs.ts), the trigger handler    *)
(* (src/app/layout.tsx, handleIssueComment), the backport workflow         *)
(* (src/workflows/backport.ts) and the sandbox executor                    *)
(* (src/lib/sandbox.ts).                                                   *)
(*                                                                         *)
(* Conventions.  Confidence scores are hundredths (0.8 is 80).  A text     *)
(* (an error message, a comment body) is a sequence of string fragments,   *)
(* so that a text built by interpolation keeps the parts it was built      *)
(* from; the empty sequence is "undefined".  A PR number of 0 is           *)
(* "undefined".  An external call (host API, oracle, sandbox) either       *)
(* returns or fails; which one is the environment's choice.                *)
(***************************************************************************)
EXTENDS Integers, Sequences, FiniteSets, TLC

----------------------------------------------------------------------------
(* Bounds of the model *)

MaxCommits == 2
MaxFiles == 2
MaxStoreOps == 3
MaxRegions == 2

(* Program constants *)

GateConfidence == 80
AcceptConfidence == 70

----------------------------------------------------------------------------
(* Inputs *)

\* The values Math.random().toString(36).substring(2, 9) takes.
Randoms == {"a", "b"}

\* jobs.ts line 32: the id is built from the clock and the random draw.
generateJobId(t, r) == "bp_" \o ToString(t) \o "_" \o r

\* The id generateJobId returns for the trigger of the run.
RunJobId == generateJobId(0, "a")

\* An id no createJob of this process returned (the store is in memory and
\* starts empty with every deployment).
StaleJobId == "bp_0_zzzzzzz"

\* The ordered commit lists of a pull request: n distinct shas, named 1..n
\* by age, listed oldest first or newest first; at least one commit.
CommitLists ==
  UNION {{[i \in 1..n |-> i], [i \in 1..n |-> n + 1 - i]} : n \in 1..MaxCommits}

FeasibilityConfidences == {50, 80, 81, 95}

ResolutionConfidences == {50, 69, 70, 85}

PotentialConflictTexts == {<<"- a.ts: api changed", "- b.ts: file moved">>}

\* BackportAnalysisSchema, the fields the workflow reads.
Feasibilities ==
  [canBackport : {TRUE}, confidence : FeasibilityConfidences,
   potentialConflicts : {<<>>}, recommendations : {<<"none needed">>}]
  \cup
  [canBackport : {FALSE}, confidence : FeasibilityConfidences,
   potentialConflicts : PotentialConflictTexts,
   recommendations : {<<"backport by hand">>}]

NoAnalysis ==
  [canBackport |-> TRUE, confidence |-> 0, potentialConflicts |-> <<>>,
   recommendations |-> <<>>]

\* ConflictResolutionSchema: the confidence, and whether the proposed content
\* still holds conflict markers.
Resolutions == [confidence : ResolutionConfidences, markers : BOOLEAN]

NoResolution == [confidence |-> 0, markers |-> FALSE]

PRNumbers == {41}

Statuses == {"pending", "in_progress", "completed", "failed"}

Terminal == {"completed", "failed"}

----------------------------------------------------------------------------
(* Texts *)

NoText == <<>>

Msg(s) == <<s>>

ErrAcknowledge == Msg("reaction could not be created")
ErrFetchPR == Msg("Not Found")
ErrBranchMissing == <<"Target branch 'T' ", "does not exist">>
ErrOracle == Msg("oracle call failed")
ErrCredentials == Msg("installation token unavailable")
ErrCreatePR == Msg("pull request could not be created")
ErrComment == Msg("comment could not be created")
ErrStartWorkflow == Msg("workflow could not be started")

----------------------------------------------------------------------------
VARIABLES
  jobStore,          \* the Map of jobs.ts: job id -> BackportJob
  storeOps,          \* number of calls made by the store's direct clients
  lastCall,          \* the last of these calls, its arguments and what it returned
  now,               \* the clock new Date() and Date.now() read
  hpc,               \* handleIssueComment: position
  jobId,             \* handleIssueComment: job.id, passed to the workflow
  permission,        \* handleIssueComment: permission.permission, once found
  wpc,               \* backportPullRequest: position
  prCommits,         \* prDetails.commits
  analysis,          \* analysis.backportAnalysis
  wErr,              \* the exception the workflow's catch block holds
  thrownBy,          \* the step that threw it
  wFatal,            \* whether it is a FatalError (not retried by the runtime)
  targetExists,      \* host: the target branch exists
  unmergedStatuses,  \* host: the statuses a conflicting cherry-pick leaves on its files
  reactions,         \* host: reactions created on the triggering comment
  comments,          \* host: comments created on the source pull request
  pulls,             \* host: pull requests opened by the workflow
  remote,            \* host: the branch backport-pr-N-to-T
  reportCalls,       \* calls of reportFailure / reportSuccess, in order
  oracleCalls,       \* calls of the oracle (src/lib/ai.ts), in order
  epc,               \* executeBackport: position
  execCalls,         \* number of calls of executeBackport
  sandbox,           \* the Sandbox of executeBackport
  stopCalls,         \* outcomes of sandbox.stop(), in order
  cpIdx,             \* index of the commit the cherry-pick loop is at
  picked,            \* commits whose cherry-pick was started, in order
  listing,           \* the entries `git status --porcelain` printed for the cherry-pick
  conflicting,       \* the conflicted files of the current cherry-pick
  fileIdx,           \* index of the file the resolution loop is at
  written,           \* files overwritten by resolveConflictWithAI
  staged,            \* files staged by resolveConflictWithAI
  writeCalls,        \* files resolveConflictWithAI called writeFiles for
  stageCalls,        \* files resolveConflictWithAI ran `git add` for
  resolution,        \* the oracle's ConflictResolution being decided
  fileRead,          \* resolveConflictWithAI: what reading the current file gave
  resolveRet,        \* what resolveConflictWithAI returned for the current file
  unresolved,        \* <<commit, file>> of every `false` it returned
  remoteCmds,        \* git commands issued against the remote branch
  aborted,           \* commits whose cherry-pick was aborted
  branchCommits,     \* commits created on the working branch, in order
  skipped,           \* commits skipped as already applied
  conflictFiles,     \* executeBackport: conflictFiles
  resolvedConflicts, \* executeBackport: resolvedConflicts
  eErr,              \* the exception executeBackport's catch block holds
  pendingResult,     \* the value of the return statement, before finally
  execResult,        \* the BackportExecutionResult the caller receives
  parser,            \* resolveConflictWithAI: the locals of its conflict parser
  git,               \* the first git commands of executeBackport: what they logged and threw
  race               \* the push phase of two jobs for one pull request and target

storeVars == <<jobStore, storeOps, lastCall, now>>

handlerVars == <<hpc, jobId, permission>>

workflowVars == <<wpc, prCommits, analysis, wErr, thrownBy, wFatal>>

hostVars ==
  <<reactions, comments, pulls, remote, reportCalls, oracleCalls, targetExists,
    unmergedStatuses>>

execVars ==
  <<epc, execCalls, sandbox, stopCalls, cpIdx, picked, listing, conflicting, fileIdx,
    written, staged, writeCalls, stageCalls, resolution, fileRead, resolveRet,
    unresolved, remoteCmds, aborted, branchCommits, skipped, conflictFiles, resolvedConflicts, eErr,
    pendingResult, execResult>>

vars == <<storeVars, handlerVars, workflowVars, hostVars, execVars, parser, git, race>>

----------------------------------------------------------------------------
(* Job store, src/lib/jobs.ts *)

NoJobId == "none"

\* What getJob and updateJob return for an id that is not stored.
Null == [id |-> NoJobId]

\* The value of a Promise<void>.
Void == [id |-> "void"]

\* No field named: the empty update.
NoUpdates == [f \in {} |-> 0]

NoCall ==
  [op |-> "none", id |-> NoJobId, before |-> "none", updates |-> NoUpdates,
   message |-> NoText, ret |-> Void]

\* Lines 38-46: the record createJob builds (the modelled fields).
NewJob(id) ==
  [id |-> id, status |-> "pending", resultPR |-> 0, error |-> NoText, logs |-> <<>>,
   createdAt |-> now, updatedAt |-> now]

\* createJob putting its record into a Map of its own.
createJobAlone(store, id) == [i \in {id} |-> NewJob(id)]

\* Line 48: jobStore.set(job.id, job).
createJob(store, id) ==
  [i \in DOMAIN store \cup {id} |-> IF i = id THEN NewJob(id) ELSE store[i]]

\* The record rebuilt from the update with defaults for the fields it does
\* not name, instead of the stored ones.
MergeOverDefaults(job, updates) ==
  [f \in DOMAIN job |->
     IF f \in DOMAIN updates THEN updates[f]
     ELSE IF f \in {"status", "resultPR", "error"} THEN NewJob(job.id)[f] ELSE job[f]]

\* The fields of `updates` overwrite the stored ones ({...existing, ...updates}).
Merge(job, updates) ==
  [f \in DOMAIN job |-> IF f \in DOMAIN updates THEN updates[f] ELSE job[f]]

\* The merged record rebuilt without the log of the stored one.
UpdatedWithoutLog(job, updates) ==
  [Merge(job, updates) EXCEPT !.updatedAt = now, !.logs = <<>>]

\* Lines 63-67: the merged record, with updatedAt read from the clock.
Updated(job, updates) == [Merge(job, updates) EXCEPT !.updatedAt = now]

\* Lines 60-70: the store after updateJob.  The function has no await
\* between its read and its write of the Map, so a call is one step.
updateJob(store, id, updates) ==
  IF id \notin DOMAIN store THEN store
  ELSE [store EXCEPT ![id] = Updated(@, updates)]

\* Lines 61 and 70: what updateJob returns.
updateJobReturn(store, id, updates) ==
  IF id \notin DOMAIN store THEN Null ELSE Updated(store[id], updates)

\* addJobLog without the test of line 78: an unknown id gets a record.
addJobLogUpsert(store, id, message) ==
  [i \in DOMAIN store \cup {id} |->
     IF i # id THEN store[i]
     ELSE IF id \in DOMAIN store
          THEN [store[id] EXCEPT !.logs = Append(@, message), !.updatedAt = now]
          ELSE [NewJob(id) EXCEPT !.logs = <<message>>]]

\* Lines 77-82: the entry is pushed and updatedAt set, for a stored job only.
\* (The entry is the message; its ISO time prefix of line 74 is left out.)
addJobLog(store, id, message) ==
  IF id \in DOMAIN store
  THEN [store EXCEPT ![id].logs = Append(@, message), ![id].updatedAt = now]
  ELSE store

RECURSIVE addJobLogs(_, _, _)
addJobLogs(store, id, messages) ==
  IF messages = <<>> THEN store
  ELSE addJobLogs(addJobLog(store, id, Head(messages)), id, Tail(messages))

----------------------------------------------------------------------------
(* Trigger handler, src/app/layout.tsx handleIssueComment (from the         *)
(* permission check on)                                                    *)

\* The permission levels getCollaboratorPermissionLevel reports.
PermissionLevels == {"admin", "write", "maintain", "read", "none"}

\* Line 189.
allowedPermissions == {"admin", "write", "maintain"}

\* No permission level was found: the check has not run, or the lookup threw.
PermissionUnknown == "unknown"

\* Line 199: the denial posted on the pull request.
DeniedComment ==
  [kind |-> "denied", error |-> NoText, pr |-> 0,
   body |-> <<"You need write access to this repository to request backports.">>]

\* Lines 178-211: the lookup returns a level or throws; a level outside the
\* allow-list posts the denial and returns; the catch block of lines 208-211
\* takes every exception of the try block, the lookup's and createComment's
\* alike, logs it and lets the handler go on to createJob.
HandlerCheckPermission ==
  /\ hpc = "permission"
  /\ \/ \E p \in PermissionLevels :
          /\ permission' = p
          /\ IF p \in allowedPermissions
             THEN /\ hpc' = "create"
                  /\ UNCHANGED comments
             ELSE \/ /\ comments' = Append(comments, DeniedComment)
                     /\ hpc' = "denied"
                  \/ /\ hpc' = "create"
                     /\ UNCHANGED comments
     \/ /\ permission' = PermissionUnknown
        /\ hpc' = "create"
        /\ UNCHANGED comments
  /\ UNCHANGED <<jobStore, storeOps, lastCall, now, jobId, wpc, prCommits, analysis, wErr,
                 thrownBy, wFatal, targetExists, unmergedStatuses, reactions, pulls,
                 remote, reportCalls, oracleCalls, epc, execCalls, sandbox, stopCalls,
                 cpIdx, picked, listing, conflicting, fileIdx, written, staged, writeCalls,
                 stageCalls, resolution, fileRead, resolveRet, unresolved, remoteCmds,
                 aborted, branchCommits, skipped, conflictFiles, resolvedConflicts, eErr,
                 pendingResult, execResult, parser, git, race>>


\* Lines 213-225: createJob under a generated id, two log entries.
HandlerCreateJob ==
  /\ hpc = "create"
  /\ jobId' = RunJobId
  /\ jobStore' = addJobLogs(createJob(jobStore, RunJobId), RunJobId,
                            <<Msg("Backport requested by"), Msg("Target branch")>>)
  /\ hpc' = "mark"
  /\ UNCHANGED <<storeOps, lastCall, now, permission, wpc, prCommits, analysis, wErr,
                 thrownBy, wFatal, targetExists, unmergedStatuses, reactions, comments,
                 pulls, remote, reportCalls, oracleCalls, epc, execCalls, sandbox,
                 stopCalls, cpIdx, picked, listing, conflicting, fileIdx, written, staged,
                 writeCalls, stageCalls, resolution, fileRead, resolveRet, unresolved,
                 remoteCmds, aborted, branchCommits, skipped, conflictFiles,
                 resolvedConflicts, eErr, pendingResult, execResult, parser, git, race>>

HandlerMarkInProgressLogOnly ==
  /\ hpc = "mark"
  /\ jobStore' = addJobLog(jobStore, jobId, Msg("Starting backport workflow..."))
  /\ hpc' = "start"
  /\ UNCHANGED <<storeOps, lastCall, now, jobId, permission, workflowVars, hostVars, execVars, parser, git, race>>

\* Lines 229-230.
HandlerMarkInProgress ==
  /\ hpc = "mark"
  /\ jobStore' = addJobLog(updateJob(jobStore, jobId, [status |-> "in_progress"]),
                           jobId, Msg("Starting backport workflow..."))
  /\ hpc' = "start"
  /\ UNCHANGED <<storeOps, lastCall, now, jobId, permission, wpc, prCommits, analysis,
                 wErr, thrownBy, wFatal, targetExists, unmergedStatuses, reactions,
                 comments, pulls, remote, reportCalls, oracleCalls, epc, execCalls,
                 sandbox, stopCalls, cpIdx, picked, listing, conflicting, fileIdx, written,
                 staged, writeCalls, stageCalls, resolution, fileRead, resolveRet,
                 unresolved, remoteCmds, aborted, branchCommits, skipped, conflictFiles,
                 resolvedConflicts, eErr, pendingResult, execResult, parser, git, race>>

\* Lines 232-249: start() enqueues the workflow run and the handler returns.
HandlerStart ==
  /\ hpc = "start"
  /\ hpc' = "done"
  /\ wpc' = "acknowledge"
  /\ UNCHANGED <<jobStore, storeOps, lastCall, now, jobId, permission, prCommits, analysis,
                 wErr, thrownBy, wFatal, targetExists, unmergedStatuses, reactions,
                 comments, pulls, remote, reportCalls, oracleCalls, epc, execCalls,
                 sandbox, stopCalls, cpIdx, picked, listing, conflicting, fileIdx, written,
                 staged, writeCalls, stageCalls, resolution, fileRead, resolveRet,
                 unresolved, remoteCmds, aborted, branchCommits, skipped, conflictFiles,
                 resolvedConflicts, eErr, pendingResult, execResult, parser, git, race>>

\* layout.tsx line 267: the notice posted when the workflow could not be started.
NotStartedComment ==
  [kind |-> "not_started", error |-> NoText, pr |-> 0,
   body |-> <<"Failed to start backport workflow. Please try again later or contact support.">>]

\* Lines 250-280: start() throws; the job is failed and a notice is attempted.
HandlerStartThrows ==
  /\ hpc = "start"
  /\ hpc' = "done"
  /\ jobStore' = addJobLog(
       updateJob(jobStore, jobId, [status |-> "failed", error |-> ErrStartWorkflow]),
       jobId, Msg("Failed to start workflow"))
  /\ \/ comments' = Append(comments, NotStartedComment)
     \/ UNCHANGED comments
  /\ UNCHANGED <<storeOps, lastCall, now, jobId, permission, wpc, prCommits, analysis,
                 wErr, thrownBy, wFatal, targetExists, unmergedStatuses, reactions, pulls,
                 remote, reportCalls, oracleCalls, epc, execCalls, sandbox, stopCalls,
                 cpIdx, picked, listing, conflicting, fileIdx, written, staged, writeCalls,
                 stageCalls, resolution, fileRead, resolveRet, unresolved, remoteCmds,
                 aborted, branchCommits, skipped, conflictFiles, resolvedConflicts, eErr,
                 pendingResult, execResult, parser, git, race>>

----------------------------------------------------------------------------
(* Workflow, src/workflows/backport.ts backportPullRequest *)

\* A step throws: control passes to the catch block of lines 186-196.
WThrow(step, err) ==
  /\ wpc' = "catch"
  /\ wErr' = err
  /\ thrownBy' = step
  /\ wFatal' = FALSE

\* A step throws a FatalError (line 296).
WThrowFatal(step, err) ==
  /\ wpc' = "catch"
  /\ wErr' = err
  /\ thrownBy' = step
  /\ wFatal' = TRUE

GateRefusesAbove90(a) == ~a.canBackport /\ a.confidence > 90

GateRefusesAtThreshold(a) == ~a.canBackport /\ a.confidence >= GateConfidence

\* Lines 104-107: the feasibility gate.
GateRefuses(a) == ~a.canBackport /\ a.confidence > GateConfidence

\* Line 111: the error text of a refused backport.
GateError(a) ==
  <<"AI analysis indicates this backport may not be feasible:">>
    \o a.potentialConflicts \o <<"Recommendations:">> \o a.recommendations

\* Line 425: the body of a failure comment.
FailureBody(err) ==
  <<"Failed to backport to 'T'.", "**Error:** ">> \o err
    \o <<"Please try backporting manually.">>

\* Line 406: the body of a success comment.
SuccessBody(n) == <<"Successfully backported to 'T'!", "See #", ToString(n)>>

FailureComment(err) ==
  [kind |-> "failure", error |-> err, pr |-> 0, body |-> FailureBody(err)]

SuccessComment(n) ==
  [kind |-> "success", error |-> NoText, pr |-> n, body |-> SuccessBody(n)]

\* Lines 64-66 and 201-217: the reaction on the triggering comment.
AcknowledgeRequest ==
  /\ wpc = "acknowledge"
  /\ \/ /\ reactions' = reactions + 1
        /\ jobStore' = addJobLog(jobStore, jobId, Msg("Request acknowledged"))
        /\ wpc' = "fetch"
        /\ UNCHANGED <<wErr, thrownBy, wFatal>>
     \/ /\ WThrow("acknowledgeRequest", ErrAcknowledge)
        /\ UNCHANGED <<reactions, jobStore>>
  /\ UNCHANGED <<storeOps, lastCall, now, hpc, jobId, permission, prCommits, analysis,
                 targetExists, unmergedStatuses, comments, pulls, remote, reportCalls,
                 oracleCalls, epc, execCalls, sandbox, stopCalls, cpIdx, picked, listing,
                 conflicting, fileIdx, written, staged, writeCalls, stageCalls, resolution,
                 fileRead, resolveRet, unresolved, remoteCmds, aborted, branchCommits,
                 skipped, conflictFiles, resolvedConflicts, eErr, pendingResult,
                 execResult, parser, git, race>>

\* Lines 68-72 and 219-264.
FetchPRDetails ==
  /\ wpc = "fetch"
  /\ \/ \E cs \in CommitLists :
          /\ prCommits' = cs
          /\ jobStore' = addJobLogs(jobStore, jobId,
               <<Msg("Fetching PR details..."), Msg("PR title"), Msg("Commits")>>)
          /\ wpc' = "validate"
          /\ UNCHANGED <<wErr, thrownBy, wFatal>>
     \/ /\ WThrow("fetchPRDetails", ErrFetchPR)
        /\ jobStore' = addJobLog(jobStore, jobId, Msg("Fetching PR details..."))
        /\ UNCHANGED prCommits
  /\ UNCHANGED <<storeOps, lastCall, now, hpc, jobId, permission, analysis, targetExists,
                 unmergedStatuses, reactions, comments, pulls, remote, reportCalls,
                 oracleCalls, epc, execCalls, sandbox, stopCalls, cpIdx, picked, listing,
                 conflicting, fileIdx, written, staged, writeCalls, stageCalls, resolution,
                 fileRead, resolveRet, unresolved, remoteCmds, aborted, branchCommits,
                 skipped, conflictFiles, resolvedConflicts, eErr, pendingResult,
                 execResult, parser, git, race>>

ValidateTargetBranchUnchecked ==
  /\ wpc = "validate"
  /\ jobStore' = addJobLogs(jobStore, jobId,
                            <<Msg("Validating target branch"), Msg("Target branch exists")>>)
  /\ wpc' = "analyze"
  /\ UNCHANGED <<storeOps, lastCall, now, handlerVars, prCommits, analysis, wErr, thrownBy,
                 wFatal, hostVars, execVars, parser, git, race, fileRead>>

\* Lines 74-81 and 266-298: the lookup returns only for a branch that exists;
\* any failure of it (a missing branch, or another error of the two host
\* calls) is the FatalError of line 296.
ValidateTargetBranch ==
  /\ wpc = "validate"
  /\ \/ /\ targetExists
        /\ jobStore' = addJobLogs(jobStore, jobId,
               <<Msg("Validating target branch"), Msg("Target branch exists")>>)
        /\ wpc' = "analyze"
        /\ UNCHANGED <<wErr, thrownBy, wFatal>>
     \/ /\ WThrowFatal("validateTargetBranch", ErrBranchMissing)
        /\ jobStore' = addJobLog(jobStore, jobId, Msg("Validating target branch"))
  /\ UNCHANGED <<storeOps, lastCall, now, hpc, jobId, permission, prCommits, analysis,
                 targetExists, unmergedStatuses, reactions, comments, pulls, remote,
                 reportCalls, oracleCalls, epc, execCalls, sandbox, stopCalls, cpIdx,
                 picked, listing, conflicting, fileIdx, written, staged, writeCalls,
                 stageCalls, resolution, fileRead, resolveRet, unresolved, remoteCmds,
                 aborted, branchCommits, skipped, conflictFiles, resolvedConflicts, eErr,
                 pendingResult, execResult, parser, git, race>>

\* A call of the oracle: the operation and, for a conflict resolution, the
\* commit and the file it is about.
OracleCall(op, commit, file) == [op |-> op, commit |-> commit, file |-> file]

\* Lines 308-321: analyzeDiff, then analyzeBackportFeasibility on its result.
AnalysisCalls ==
  <<OracleCall("analyzeDiff", 0, 0), OracleCall("analyzeBackportFeasibility", 0, 0)>>

\* Lines 83-101 and 300-324: the two oracle calls, then the summary log; the
\* step throws when the first call fails, or when the second does.
AnalyzeChangesWithAI ==
  /\ wpc = "analyze"
  /\ \/ \E a \in Feasibilities :
          /\ analysis' = a
          /\ oracleCalls' = oracleCalls \o AnalysisCalls
          /\ jobStore' = addJobLogs(jobStore, jobId,
               <<Msg("Analyzing changes with AI..."), Msg("AI Analysis complete:")>>)
          /\ wpc' = "gate"
          /\ UNCHANGED <<wErr, thrownBy, wFatal>>
     \/ /\ WThrow("analyzeChangesWithAI", ErrOracle)
        /\ jobStore' = addJobLog(jobStore, jobId, Msg("Analyzing changes with AI..."))
        /\ \E n \in 1..Len(AnalysisCalls) :
             oracleCalls' = oracleCalls \o SubSeq(AnalysisCalls, 1, n)
        /\ UNCHANGED analysis
  /\ UNCHANGED <<storeOps, lastCall, now, hpc, jobId, permission, prCommits, targetExists,
                 unmergedStatuses, reactions, comments, pulls, remote, reportCalls, epc,
                 execCalls, sandbox, stopCalls, cpIdx, picked, listing, conflicting,
                 fileIdx, written, staged, writeCalls, stageCalls, resolution, fileRead,
                 resolveRet, unresolved, remoteCmds, aborted, branchCommits, skipped,
                 conflictFiles, resolvedConflicts, eErr, pendingResult, execResult, parser,
                 git, race>>

\* Lines 103-121: the gate decides between the refusal report and the sandbox.
Gate ==
  /\ wpc = "gate"
  /\ IF GateRefuses(analysis)
     THEN /\ jobStore' = addJobLog(jobStore, jobId,
                 <<"Backport not recommended by AI: ">> \o GateError(analysis))
          /\ wpc' = "refuse"
     ELSE /\ jobStore' = addJobLog(jobStore, jobId, Msg("Performing backport in sandbox..."))
          /\ wpc' = "perform"
  /\ UNCHANGED <<storeOps, lastCall, now, hpc, jobId, permission, prCommits, analysis,
                 wErr, thrownBy, wFatal, targetExists, unmergedStatuses, reactions,
                 comments, pulls, remote, reportCalls, oracleCalls, epc, execCalls,
                 sandbox, stopCalls, cpIdx, picked, listing, conflicting, fileIdx, written,
                 staged, writeCalls, stageCalls, resolution, fileRead, resolveRet,
                 unresolved, remoteCmds, aborted, branchCommits, skipped, conflictFiles,
                 resolvedConflicts, eErr, pendingResult, execResult, parser, git, race>>

\* Lines 113-114 and 410-427: the refusal is reported on the pull request.
GateReport ==
  /\ wpc = "refuse"
  /\ reportCalls' = Append(reportCalls, FailureComment(GateError(analysis)))
  /\ \/ /\ comments' = Append(comments, FailureComment(GateError(analysis)))
        /\ wpc' = "refused"
        /\ UNCHANGED <<wErr, thrownBy, wFatal>>
     \/ /\ WThrow("reportFailure", ErrComment)
        /\ UNCHANGED comments
  /\ UNCHANGED <<jobStore, storeOps, lastCall, now, hpc, jobId, permission, prCommits,
                 analysis, targetExists, unmergedStatuses, reactions, pulls, remote,
                 oracleCalls, epc, execCalls, sandbox, stopCalls, cpIdx, picked, listing,
                 conflicting, fileIdx, written, staged, writeCalls, stageCalls, resolution,
                 fileRead, resolveRet, unresolved, remoteCmds, aborted, branchCommits,
                 skipped, conflictFiles, resolvedConflicts, eErr, pendingResult,
                 execResult, parser, git, race>>

\* Lines 115-117: the job is failed with the refusal text and the run returns.
GateMarkFailed ==
  /\ wpc = "refused"
  /\ jobStore' = updateJob(jobStore, jobId,
        [status |-> "failed", error |-> GateError(analysis)])
  /\ wpc' = "returned"
  /\ UNCHANGED <<storeOps, lastCall, now, hpc, jobId, permission, prCommits, analysis,
                 wErr, thrownBy, wFatal, targetExists, unmergedStatuses, reactions,
                 comments, pulls, remote, reportCalls, oracleCalls, epc, execCalls,
                 sandbox, stopCalls, cpIdx, picked, listing, conflicting, fileIdx, written,
                 staged, writeCalls, stageCalls, resolution, fileRead, resolveRet,
                 unresolved, remoteCmds, aborted, branchCommits, skipped, conflictFiles,
                 resolvedConflicts, eErr, pendingResult, execResult, parser, git, race>>

CatchBlockLogsOnly ==
  /\ wpc = "catch"
  /\ jobStore' = addJobLog(jobStore, jobId, <<"Workflow error: ">> \o wErr)
  /\ wpc' = "thrown"
  /\ UNCHANGED <<storeOps, lastCall, now, handlerVars, prCommits, analysis, wErr, thrownBy,
                 wFatal, hostVars, execVars, parser, git, race, fileRead>>

\* Lines 186-196: the catch block logs, fails the job and rethrows.
CatchBlock ==
  /\ wpc = "catch"
  /\ jobStore' = updateJob(
       addJobLog(jobStore, jobId, <<"Workflow error: ">> \o wErr),
       jobId, [status |-> "failed", error |-> wErr])
  /\ wpc' = "thrown"
  /\ UNCHANGED <<storeOps, lastCall, now, hpc, jobId, permission, prCommits, analysis,
                 wErr, thrownBy, wFatal, targetExists, unmergedStatuses, reactions,
                 comments, pulls, remote, reportCalls, oracleCalls, epc, execCalls,
                 sandbox, stopCalls, cpIdx, picked, listing, conflicting, fileIdx, written,
                 staged, writeCalls, stageCalls, resolution, fileRead, resolveRet,
                 unresolved, remoteCmds, aborted, branchCommits, skipped, conflictFiles,
                 resolvedConflicts, eErr, pendingResult, execResult, parser, git, race>>

----------------------------------------------------------------------------
(* Sandbox executor, src/lib/sandbox.ts executeBackport *)

BackportBranch == "backport-pr-N-to-T"

NoResult ==
  [success |-> FALSE, branch |-> "", error |-> NoText, conflictFiles |-> <<>>,
   resolvedConflicts |-> 0]

\* Lines 321-326.
SuccessResult(files, n) ==
  [success |-> TRUE, branch |-> BackportBranch, error |-> NoText,
   conflictFiles |-> files, resolvedConflicts |-> n]

\* Lines 330-333.
FailureResult(err) ==
  [success |-> FALSE, branch |-> "", error |-> err, conflictFiles |-> <<>>,
   resolvedConflicts |-> 0]

ErrSandbox == Msg("sandbox could not be created")
ErrClone == Msg("Failed to clone repository")
ErrFetchBranch == Msg("Failed to fetch target branch")
ErrCheckout == Msg("Failed to checkout target branch")
ErrFetchCommit == Msg("Failed to fetch commit")
ErrCherryPick == Msg("Cherry-pick failed")
ErrCommit == Msg("Failed to commit cherry-picked changes")
ErrPush == Msg("Failed to push branch")

ErrConflictUnnamed(file) ==
  <<"Could not resolve merge conflict. Manual intervention required.">>

\* Line 244-246.
ErrConflict(file) ==
  <<"Could not resolve merge conflict in ", ToString(file), ". Manual intervention required.">>

SandboxLog(text) == <<"[Sandbox] ">> \o text

\* An exception inside the try block of lines 85-326.
EThrow(err) ==
  /\ eErr' = err
  /\ epc' = "catch"

\* Lines 120-130 and 326-355: credentials, then the call of executeBackport.
PerformBackport ==
  /\ wpc = "perform"
  /\ \/ /\ wpc' = "executing"
        /\ execCalls' = execCalls + 1
        /\ epc' = "create"
        /\ UNCHANGED <<wErr, thrownBy, wFatal>>
     \/ /\ WThrow("performBackport", ErrCredentials)
        /\ UNCHANGED <<execCalls, epc>>
  /\ UNCHANGED <<jobStore, storeOps, lastCall, now, hpc, jobId, permission, prCommits,
                 analysis, targetExists, unmergedStatuses, reactions, comments, pulls,
                 remote, reportCalls, oracleCalls, sandbox, stopCalls, cpIdx, picked,
                 listing, conflicting, fileIdx, written, staged, writeCalls, stageCalls,
                 resolution, fileRead, resolveRet, unresolved, remoteCmds, aborted,
                 branchCommits, skipped, conflictFiles, resolvedConflicts, eErr,
                 pendingResult, execResult, parser, git, race>>

\* Lines 86-94: Sandbox.create.
ExecCreateSandbox ==
  /\ epc = "create"
  /\ jobStore' = addJobLog(jobStore, jobId, SandboxLog(Msg("Creating sandbox environment...")))
  /\ \/ /\ sandbox' = "running"
        /\ epc' = "setup"
        /\ UNCHANGED eErr
     \/ /\ EThrow(ErrSandbox)
        /\ UNCHANGED sandbox
  /\ UNCHANGED <<storeOps, lastCall, now, hpc, jobId, permission, wpc, prCommits, analysis,
                 wErr, thrownBy, wFatal, targetExists, unmergedStatuses, reactions,
                 comments, pulls, remote, reportCalls, oracleCalls, execCalls, stopCalls,
                 cpIdx, picked, listing, conflicting, fileIdx, written, staged, writeCalls,
                 stageCalls, resolution, fileRead, resolveRet, unresolved, remoteCmds,
                 aborted, branchCommits, skipped, conflictFiles, resolvedConflicts,
                 pendingResult, execResult, parser, git, race>>

\* Lines 96-187: git config, clone, fetch and checkout of the target branch,
\* fetch of every commit; the first command that fails throws.
ExecSetup ==
  /\ epc = "setup"
  /\ jobStore' = addJobLog(jobStore, jobId, SandboxLog(Msg("Cloning repository")))
  /\ \/ /\ epc' = "cherryPick"
        /\ cpIdx' = 1
        /\ UNCHANGED eErr
     \/ /\ \E err \in {ErrClone, ErrFetchBranch, ErrCheckout, ErrFetchCommit} : EThrow(err)
        /\ UNCHANGED cpIdx
  /\ UNCHANGED <<storeOps, lastCall, now, hpc, jobId, permission, wpc, prCommits, analysis,
                 wErr, thrownBy, wFatal, targetExists, unmergedStatuses, reactions,
                 comments, pulls, remote, reportCalls, oracleCalls, execCalls, sandbox,
                 stopCalls, picked, listing, conflicting, fileIdx, written, staged,
                 writeCalls, stageCalls, resolution, fileRead, resolveRet, unresolved,
                 remoteCmds, aborted, branchCommits, skipped, conflictFiles,
                 resolvedConflicts, pendingResult, execResult, parser, git, race>>

\* What reading a conflicted path may give (lines 360-380): content with
\* conflict markers, content without, no buffer, or an exception.
ReadOutcomes == {"markers", "plain", "missing", "threw"}

CurrentCommitFromEnd == prCommits[Len(prCommits) + 1 - cpIdx]

\* Line 189: the commit the loop is at.
CurrentCommit == prCommits[cpIdx]

\* The statuses `git status --porcelain` gives an unmerged path: both
\* modified, both added, both deleted, deleted by us, deleted by them,
\* added by us, added by them.
UnmergedStatuses == {"UU", "AA", "DD", "DU", "UD", "AU", "UA"}

\* The status of a path both sides modified.
BothModified == {"UU"}

\* Line 211: the statuses the filter keeps.
ConflictStatuses == {"UU", "AA", "DD"}

\* The entries of a status listing with statuses of the given kinds, the
\* paths named by their position in the listing; no entry at all for a
\* cherry-pick that failed for another reason than a conflict.
Listings(kinds) ==
  UNION {{[i \in 1..n |-> [status |-> k[i], path |-> i]] : k \in [1..n -> kinds]} :
         n \in 0..MaxFiles}

\* The exit codes of `git cherry-pick --no-commit` (lines 192-199).
CherryPickExitCodes == {0, 1}

RECURSIVE ConflictingOf(_)
\* Lines 209-212: the paths of the entries that start with UU, AA or DD, in
\* the listing's order.
ConflictingOf(entries) ==
  IF entries = <<>> THEN <<>>
  ELSE (IF Head(entries).status \in ConflictStatuses THEN <<Head(entries).path>> ELSE <<>>)
       \o ConflictingOf(Tail(entries))

\* Lines 190 and 201, 215: what the loop logs about the cherry-pick.
CherryPickLogs(exitCode, files) ==
  <<SandboxLog(Msg("Cherry-picking commit"))>> \o
  (IF exitCode # 0
   THEN <<SandboxLog(Msg("Cherry-pick failed, checking for conflicts..."))>>
   ELSE <<>>) \o
  (IF exitCode # 0 /\ files # <<>>
   THEN <<SandboxLog(<<"Conflict detected in ", ToString(Len(files)), " file(s)">>)>>
   ELSE <<>>)

\* A failed cherry-pick without a conflicted file passed over.
ExecCherryPickIgnoresFailure ==
  /\ epc = "cherryPick"
  /\ picked' = Append(picked, CurrentCommit)
  /\ \E exitCode \in CherryPickExitCodes,
        entries \in Listings(unmergedStatuses) :
       /\ exitCode = 0 => entries = <<>>
       /\ listing' = entries
       /\ jobStore' = addJobLogs(jobStore, jobId,
                                 CherryPickLogs(exitCode, ConflictingOf(entries)))
       /\ IF exitCode = 0 \/ ConflictingOf(entries) = <<>>
          THEN /\ epc' = "commit"
               /\ UNCHANGED <<conflicting, fileIdx, conflictFiles, eErr>>
          ELSE /\ conflicting' = ConflictingOf(entries)
               /\ conflictFiles' = ConflictingOf(entries)
               /\ fileIdx' = 1
               /\ epc' = "resolve"
               /\ UNCHANGED eErr
  /\ UNCHANGED <<storeOps, lastCall, now, hpc, jobId, permission, wpc, prCommits, analysis,
                 wErr, thrownBy, wFatal, targetExists, reactions, comments, pulls, remote,
                 reportCalls, oracleCalls, execCalls, sandbox, stopCalls, cpIdx, written,
                 staged, writeCalls, stageCalls, resolution, fileRead, resolveRet,
                 unresolved, remoteCmds, aborted, branchCommits, skipped,
                 resolvedConflicts, pendingResult, execResult, parser, git, race, unmergedStatuses, listing>>

\* Lines 189-216 and 249-251: cherry-pick --no-commit of the current commit;
\* after a failure the status is asked for and filtered: conflicted files go
\* to the resolution loop, none is the error 'Cherry-pick failed'.
ExecCherryPick ==
  /\ epc = "cherryPick"
  /\ picked' = Append(picked, CurrentCommit)
  /\ \E exitCode \in CherryPickExitCodes,
        entries \in Listings(unmergedStatuses) :
       /\ exitCode = 0 => entries = <<>>
       /\ listing' = entries
       /\ jobStore' = addJobLogs(jobStore, jobId,
                                 CherryPickLogs(exitCode, ConflictingOf(entries)))
       /\ IF exitCode = 0
          THEN /\ epc' = "commit"
               /\ UNCHANGED <<conflicting, fileIdx, conflictFiles, eErr>>
          ELSE IF ConflictingOf(entries) # <<>>
          THEN /\ conflicting' = ConflictingOf(entries)
               /\ conflictFiles' = ConflictingOf(entries)
               /\ fileIdx' = 1
               /\ epc' = "resolve"
               /\ UNCHANGED eErr
          ELSE /\ EThrow(ErrCherryPick)
               /\ UNCHANGED <<conflicting, fileIdx, conflictFiles>>
  /\ UNCHANGED <<storeOps, lastCall, now, hpc, jobId, permission, wpc, prCommits, analysis,
                 wErr, thrownBy, wFatal, targetExists, unmergedStatuses, reactions,
                 comments, pulls, remote, reportCalls, oracleCalls, execCalls, sandbox,
                 stopCalls, cpIdx, written, staged, writeCalls, stageCalls, resolution,
                 fileRead, resolveRet, unresolved, remoteCmds, aborted, branchCommits,
                 skipped, resolvedConflicts, pendingResult, execResult, parser, git, race>>

\* resolveConflictWithAI returns false (lines 367, 379, 425, 446).
ReturnUnresolved ==
  /\ resolveRet' = "unresolved"
  /\ unresolved' = Append(unresolved, <<CurrentCommit, conflicting[fileIdx]>>)
  /\ epc' = "resolved?"

\* An exception of readFileToBuffer leaving resolveConflictWithAI.
ExecReadConflictPropagates ==
  /\ epc = "resolve"
  /\ jobStore' = addJobLog(jobStore, jobId, SandboxLog(Msg("Reading conflicted file")))
  /\ \E read \in ReadOutcomes :
       /\ fileRead' = read
       /\ IF read = "markers"
          THEN /\ epc' = "oracle"
               /\ UNCHANGED <<resolveRet, unresolved, eErr>>
          ELSE IF read = "threw"
          THEN /\ EThrow(Msg("read failed"))
               /\ UNCHANGED <<resolveRet, unresolved>>
          ELSE /\ ReturnUnresolved
               /\ UNCHANGED eErr
  /\ UNCHANGED <<storeOps, lastCall, now, hpc, jobId, permission, wpc, prCommits, analysis,
                 wErr, thrownBy, wFatal, targetExists, reactions, comments, pulls, remote,
                 reportCalls, oracleCalls, execCalls, sandbox, stopCalls, cpIdx, picked,
                 conflicting, fileIdx, written, staged, writeCalls, stageCalls, resolution,
                 remoteCmds, aborted, branchCommits, skipped, conflictFiles,
                 resolvedConflicts, pendingResult, execResult, parser, git, race, unmergedStatuses, listing>>

\* Lines 357-408: read the file and look for conflict markers.
ExecReadConflict ==
  /\ epc = "resolve"
  /\ jobStore' = addJobLog(jobStore, jobId, SandboxLog(Msg("Reading conflicted file")))
  /\ \E read \in ReadOutcomes :
       /\ fileRead' = read
       /\ IF read = "markers"
          THEN /\ epc' = "oracle"
               /\ UNCHANGED <<resolveRet, unresolved>>
          ELSE ReturnUnresolved
  /\ UNCHANGED <<storeOps, lastCall, now, hpc, jobId, permission, wpc, prCommits, analysis,
                 wErr, thrownBy, wFatal, targetExists, unmergedStatuses, reactions,
                 comments, pulls, remote, reportCalls, oracleCalls, execCalls, sandbox,
                 stopCalls, cpIdx, picked, listing, conflicting, fileIdx, written, staged,
                 writeCalls, stageCalls, resolution, remoteCmds, aborted, branchCommits,
                 skipped, conflictFiles, resolvedConflicts, eErr, pendingResult,
                 execResult, parser, git, race>>

\* The oracle call of line 412 issued again after it failed.
ExecOracleRetrying ==
  /\ epc = "oracle"
  /\ jobStore' = addJobLog(jobStore, jobId,
                           SandboxLog(Msg("Calling AI for conflict resolution...")))
  /\ \/ \E r \in Resolutions :
          /\ resolution' = r
          /\ epc' = "apply"
          /\ oracleCalls' = Append(oracleCalls,
               OracleCall("suggestConflictResolution", CurrentCommit, conflicting[fileIdx]))
          /\ UNCHANGED <<resolveRet, unresolved>>
     \/ /\ ReturnUnresolved
        /\ oracleCalls' = oracleCalls \o
             <<OracleCall("suggestConflictResolution", CurrentCommit, conflicting[fileIdx]),
               OracleCall("suggestConflictResolution", CurrentCommit, conflicting[fileIdx])>>
        /\ UNCHANGED resolution
  /\ UNCHANGED <<storeOps, lastCall, now, hpc, jobId, permission, wpc, prCommits, analysis,
                 wErr, thrownBy, wFatal, targetExists, reactions, comments, pulls, remote,
                 reportCalls, execCalls, sandbox, stopCalls, cpIdx, picked, conflicting,
                 fileIdx, written, staged, writeCalls, stageCalls, remoteCmds, aborted,
                 branchCommits, skipped, conflictFiles, resolvedConflicts, eErr,
                 pendingResult, execResult, parser, git, race, fileRead, unmergedStatuses, listing>>

\* The loop of line 219 run for all the remaining files at once: the oracle is
\* asked about each of them before the first answer is applied.
ExecOracleAllAtOnce ==
  /\ epc = "oracle"
  /\ jobStore' = addJobLog(jobStore, jobId,
                           SandboxLog(Msg("Calling AI for conflict resolution...")))
  /\ oracleCalls' = oracleCalls \o
       [k \in 1..(Len(conflicting) + 1 - fileIdx) |->
          OracleCall("suggestConflictResolution", CurrentCommit,
                     conflicting[fileIdx + k - 1])]
  /\ \/ \E r \in Resolutions :
          /\ resolution' = r
          /\ epc' = "apply"
          /\ UNCHANGED <<resolveRet, unresolved>>
     \/ /\ ReturnUnresolved
        /\ UNCHANGED resolution
  /\ UNCHANGED <<storeOps, lastCall, now, hpc, jobId, permission, wpc, prCommits, analysis,
                 wErr, thrownBy, wFatal, targetExists, unmergedStatuses, reactions,
                 comments, pulls, remote, reportCalls, execCalls, sandbox, stopCalls,
                 cpIdx, picked, listing, conflicting, fileIdx, written, staged, writeCalls,
                 stageCalls, fileRead, remoteCmds, aborted, branchCommits, skipped,
                 conflictFiles, resolvedConflicts, eErr, pendingResult, execResult, parser, git, race>>

\* Lines 410-420 and 442-447: suggestConflictResolution.
ExecOracle ==
  /\ epc = "oracle"
  /\ jobStore' = addJobLog(jobStore, jobId,
                           SandboxLog(Msg("Calling AI for conflict resolution...")))
  /\ oracleCalls' = Append(oracleCalls,
       OracleCall("suggestConflictResolution", CurrentCommit, conflicting[fileIdx]))
  /\ \/ \E r \in Resolutions :
          /\ resolution' = r
          /\ epc' = "apply"
          /\ UNCHANGED <<resolveRet, unresolved>>
     \/ /\ ReturnUnresolved
        /\ UNCHANGED resolution
  /\ UNCHANGED <<storeOps, lastCall, now, hpc, jobId, permission, wpc, prCommits, analysis,
                 wErr, thrownBy, wFatal, targetExists, unmergedStatuses, reactions,
                 comments, pulls, remote, reportCalls, execCalls, sandbox, stopCalls,
                 cpIdx, picked, listing, conflicting, fileIdx, written, staged, writeCalls,
                 stageCalls, fileRead, remoteCmds, aborted, branchCommits, skipped,
                 conflictFiles, resolvedConflicts, eErr, pendingResult, execResult, parser,
                 git, race>>

AcceptResolutionAbove(r) == r.confidence > AcceptConfidence

\* Line 423: the accept threshold.
AcceptResolution(r) == ~(r.confidence < AcceptConfidence)

\* What `git add <file>` of line 439 may do: exit 0, exit with another code
\* (the code is not looked at), or throw.
StageOutcomes == {"staged", "exit_nonzero", "threw"}

\* Lines 422-447: reject, or write the proposed content and stage the file;
\* an exception of writeFiles or of the git command is caught and the file is
\* unresolved.
ExecApply ==
  /\ epc = "apply"
  /\ jobStore' = addJobLog(jobStore, jobId, SandboxLog(Msg("AI confidence")))
  /\ IF AcceptResolution(resolution)
     THEN /\ writeCalls' = writeCalls \cup {conflicting[fileIdx]}
          /\ \/ \E add \in StageOutcomes :
                  /\ written' = written \cup {conflicting[fileIdx]}
                  /\ stageCalls' = stageCalls \cup {conflicting[fileIdx]}
                  /\ staged' = IF add = "staged"
                               THEN staged \cup {conflicting[fileIdx]}
                               ELSE staged
                  /\ IF add = "threw"
                     THEN ReturnUnresolved
                     ELSE /\ resolveRet' = "resolved"
                          /\ epc' = "resolved?"
                          /\ UNCHANGED unresolved
             \/ /\ ReturnUnresolved
                /\ UNCHANGED <<written, staged, stageCalls>>
     ELSE /\ ReturnUnresolved
          /\ UNCHANGED <<written, staged, writeCalls, stageCalls>>
  /\ UNCHANGED <<storeOps, lastCall, now, hpc, jobId, permission, wpc, prCommits, analysis,
                 wErr, thrownBy, wFatal, targetExists, unmergedStatuses, reactions,
                 comments, pulls, remote, reportCalls, oracleCalls, execCalls, sandbox,
                 stopCalls, cpIdx, picked, listing, conflicting, fileIdx, resolution,
                 fileRead, remoteCmds, aborted, branchCommits, skipped, conflictFiles,
                 resolvedConflicts, eErr, pendingResult, execResult, parser, git, race>>

\* Lines 231-233: the file is resolved; the loop of line 219 goes on.
NextFile ==
  /\ resolvedConflicts' = resolvedConflicts + 1
  /\ fileIdx' = fileIdx + 1
  /\ epc' = IF fileIdx < Len(conflicting) THEN "resolve" ELSE "commit"
  /\ UNCHANGED <<aborted, eErr, parser, git, race>>

SkipUnresolvedFile ==
  /\ fileIdx' = fileIdx + 1
  /\ epc' = IF fileIdx < Len(conflicting) THEN "resolve" ELSE "commit"
  /\ UNCHANGED <<aborted, eErr, resolvedConflicts, written, staged, writeCalls, stageCalls, parser, git, race>>

\* Lines 234-247: the file is not resolved; `cherry-pick --abort` (which puts
\* the work tree and the index back) and throw.
AbortAndThrow ==
  /\ aborted' = Append(aborted, CurrentCommit)
  /\ written' = {}
  /\ staged' = {}
  /\ writeCalls' = {}
  /\ stageCalls' = {}
  /\ EThrow(ErrConflict(conflicting[fileIdx]))
  /\ UNCHANGED <<resolvedConflicts, fileIdx, parser, git, race>>

\* Lines 233 and 235: what the loop logs about a file.
ResolveLog(resolved) ==
  IF resolved THEN Msg("Successfully resolved conflict in file")
  ELSE Msg("Could not auto-resolve conflict in file")

\* Lines 231-248: the caller of resolveConflictWithAI.
ExecResolveReturn ==
  /\ epc = "resolved?"
  /\ fileRead' = "none"
  /\ resolveRet' = "none"
  /\ resolution' = NoResolution
  /\ jobStore' = addJobLog(jobStore, jobId, SandboxLog(ResolveLog(resolveRet = "resolved")))
  /\ IF resolveRet = "resolved"
     THEN NextFile /\ UNCHANGED <<written, staged, writeCalls, stageCalls>>
     ELSE AbortAndThrow
  /\ UNCHANGED <<storeOps, lastCall, now, hpc, jobId, permission, wpc, prCommits, analysis,
                 wErr, thrownBy, wFatal, targetExists, unmergedStatuses, reactions,
                 comments, pulls, remote, reportCalls, oracleCalls, execCalls, sandbox,
                 stopCalls, cpIdx, picked, listing, conflicting, unresolved, remoteCmds,
                 branchCommits, skipped, conflictFiles, pendingResult, execResult, parser,
                 git, race>>

\* The exit codes of `git commit` (lines 258-268): 0, or another one.
CommitExitCodes == {0, 1}

\* What `git status --porcelain` prints after a failed commit (lines
\* 272-277): nothing, or the paths that differ.
TreeStatuses == {NoText, Msg("M  a.ts")}

\* Lines 58-71: runGitCommand logs the output and a non-zero exit code.
CommitLogs(exitCode, status) ==
  <<SandboxLog(Msg("Committing cherry-picked changes..."))>> \o
  (IF exitCode # 0 THEN <<SandboxLog(<<"  Exit code: ", ToString(exitCode)>>)>> ELSE <<>>) \o
  (IF status # NoText THEN <<SandboxLog(<<"  ">> \o status)>> ELSE <<>>)

\* Every failed commit taken as a commit that was already applied.
AlreadyAppliedOnAnyFailure(exitCode, status) == exitCode # 0

\* Lines 270-280: a failed commit with a clean tree is one already applied.
AlreadyApplied(exitCode, status) == exitCode # 0 /\ status = NoText

\* Lines 254-286: add -A, commit; an empty commit is skipped as already
\* applied, any other failed commit throws.  The status is asked for only
\* after a failed commit.
ExecCommit ==
  /\ epc = "commit"
  /\ \E exitCode \in CommitExitCodes, status \in TreeStatuses :
       /\ exitCode = 0 => status = NoText
       /\ jobStore' = addJobLogs(jobStore, jobId, CommitLogs(exitCode, status))
       /\ IF exitCode = 0
          THEN /\ branchCommits' = Append(branchCommits, CurrentCommit)
               /\ UNCHANGED <<skipped, eErr>>
               /\ cpIdx' = cpIdx + 1
               /\ epc' = IF cpIdx < Len(prCommits) THEN "cherryPick" ELSE "push"
          ELSE IF AlreadyApplied(exitCode, status)
          THEN /\ skipped' = Append(skipped, CurrentCommit)
               /\ UNCHANGED <<branchCommits, eErr>>
               /\ cpIdx' = cpIdx + 1
               /\ epc' = IF cpIdx < Len(prCommits) THEN "cherryPick" ELSE "push"
          ELSE /\ EThrow(ErrCommit)
               /\ UNCHANGED <<branchCommits, skipped, cpIdx>>
  /\ IF epc' = "catch"
     THEN UNCHANGED <<listing, conflicting, written, staged, writeCalls, stageCalls,
                      fileIdx>>
     ELSE /\ listing' = <<>>
          /\ conflicting' = <<>>
          /\ written' = {}
          /\ staged' = {}
          /\ writeCalls' = {}
          /\ stageCalls' = {}
          /\ fileIdx' = 0
  /\ UNCHANGED <<storeOps, lastCall, now, hpc, jobId, permission, wpc, prCommits, analysis,
                 wErr, thrownBy, wFatal, targetExists, unmergedStatuses, reactions,
                 comments, pulls, remote, reportCalls, oracleCalls, execCalls, sandbox,
                 stopCalls, picked, resolution, fileRead, resolveRet, unresolved,
                 remoteCmds, aborted, conflictFiles, resolvedConflicts, pendingResult,
                 execResult, parser, git, race>>

NoBranch == [exists |-> FALSE, commits |-> <<>>]

\* A branch of the canonical name left on the host by an earlier attempt.
StaleBranch == [exists |-> TRUE, commits |-> <<0>>]

\* Lines 300-304: the exit code of the delete is only logged.
DeleteLog(deleted) ==
  IF deleted THEN Msg("Deleted existing remote branch")
  ELSE Msg("No existing remote branch to delete (this is expected for new backports)")

\* The push phase without the delete of line 294.
ExecPushNoDelete ==
  /\ epc = "push"
  /\ jobStore' = addJobLog(jobStore, jobId, SandboxLog(Msg("Pushing branch")))
  /\ remoteCmds' = remoteCmds \o <<"push">>
  /\ \/ /\ ~remote.exists
        /\ remote' = [exists |-> TRUE, commits |-> branchCommits]
        /\ pendingResult' = SuccessResult(conflictFiles, resolvedConflicts)
        /\ epc' = "finally"
        /\ UNCHANGED eErr
     \/ /\ UNCHANGED remote
        /\ EThrow(ErrPush)
        /\ UNCHANGED pendingResult
  /\ UNCHANGED <<storeOps, lastCall, now, hpc, jobId, permission, wpc, prCommits, analysis, wErr, thrownBy,
                 wFatal, targetExists, reactions, comments, pulls, reportCalls, oracleCalls, execCalls,
                 sandbox, stopCalls, cpIdx, picked, conflicting, fileIdx, written, staged,
                 writeCalls, stageCalls, resolution, resolveRet, unresolved, aborted,
                 branchCommits, skipped, conflictFiles, resolvedConflicts, execResult, parser, git, race, fileRead, unmergedStatuses, listing>>

\* Lines 288-326: rename, delete the remote branch of that name, push.  The
\* delete takes effect or fails; a push to a name that still carries the
\* unrelated commits of an earlier attempt is rejected by the remote.
ExecPush ==
  /\ epc = "push"
  /\ remoteCmds' = remoteCmds \o <<"push --delete", "push">>
  /\ \E deleted \in IF remote.exists THEN BOOLEAN ELSE {FALSE} :
       /\ jobStore' = addJobLog(addJobLog(jobStore, jobId, SandboxLog(DeleteLog(deleted))),
                                jobId, SandboxLog(Msg("Pushing branch")))
       /\ \/ /\ deleted \/ ~remote.exists
             /\ remote' = [exists |-> TRUE, commits |-> branchCommits]
             /\ pendingResult' = SuccessResult(conflictFiles, resolvedConflicts)
             /\ epc' = "finally"
             /\ UNCHANGED eErr
          \/ /\ remote' = IF deleted THEN NoBranch ELSE remote
             /\ EThrow(ErrPush)
             /\ UNCHANGED pendingResult
  /\ UNCHANGED <<storeOps, lastCall, now, hpc, jobId, permission, wpc, prCommits, analysis,
                 wErr, thrownBy, wFatal, targetExists, unmergedStatuses, reactions,
                 comments, pulls, reportCalls, oracleCalls, execCalls, sandbox, stopCalls,
                 cpIdx, picked, listing, conflicting, fileIdx, written, staged, writeCalls,
                 stageCalls, resolution, fileRead, resolveRet, unresolved, aborted,
                 branchCommits, skipped, conflictFiles, resolvedConflicts, execResult,
                 parser, git, race>>

\* The catch block of the executor passing the exception on to its caller.
ExecCatchRethrows ==
  /\ epc = "catch"
  /\ jobStore' = addJobLog(jobStore, jobId, SandboxLog(<<"Backport failed: ">> \o eErr))
  /\ WThrow("performBackport", eErr)
  /\ epc' = "rethrown"
  /\ UNCHANGED <<storeOps, lastCall, now, hpc, jobId, permission, prCommits, analysis,
                 targetExists, reactions, comments, pulls, remote,
                 reportCalls, oracleCalls, execCalls, sandbox, stopCalls, cpIdx, picked,
                 conflicting, fileIdx, written, staged, writeCalls, stageCalls, resolution,
                 resolveRet, unresolved, remoteCmds, aborted, branchCommits, skipped,
                 conflictFiles, resolvedConflicts, eErr, pendingResult, execResult, parser, git, race, fileRead, unmergedStatuses, listing>>

\* The catch block of the executor failing the job itself.
ExecCatchMarksFailed ==
  /\ epc = "catch"
  /\ jobStore' = updateJob(
       addJobLog(jobStore, jobId, SandboxLog(<<"Backport failed: ">> \o eErr)),
       jobId, [status |-> "failed", error |-> eErr])
  /\ pendingResult' = FailureResult(eErr)
  /\ epc' = "finally"
  /\ UNCHANGED <<storeOps, lastCall, now, hpc, jobId, permission, wpc, prCommits, analysis,
                 wErr, thrownBy, wFatal, targetExists, reactions, comments, pulls, remote,
                 reportCalls, oracleCalls, execCalls, sandbox, stopCalls, cpIdx, picked,
                 conflicting, fileIdx, written, staged, writeCalls, stageCalls, resolution,
                 resolveRet, unresolved, remoteCmds, aborted, branchCommits, skipped,
                 conflictFiles, resolvedConflicts, eErr, execResult, parser, git, race, fileRead, unmergedStatuses, listing>>

\* Lines 327-333: every exception becomes a failure result.
ExecCatch ==
  /\ epc = "catch"
  /\ jobStore' = addJobLog(jobStore, jobId, SandboxLog(<<"Backport failed: ">> \o eErr))
  /\ pendingResult' = FailureResult(eErr)
  /\ epc' = "finally"
  /\ UNCHANGED <<storeOps, lastCall, now, hpc, jobId, permission, wpc, prCommits, analysis,
                 wErr, thrownBy, wFatal, targetExists, unmergedStatuses, reactions,
                 comments, pulls, remote, reportCalls, oracleCalls, execCalls, sandbox,
                 stopCalls, cpIdx, picked, listing, conflicting, fileIdx, written, staged,
                 writeCalls, stageCalls, resolution, fileRead, resolveRet, unresolved,
                 remoteCmds, aborted, branchCommits, skipped, conflictFiles,
                 resolvedConflicts, eErr, execResult, parser, git, race>>

StopSandboxUncaught(outcome) ==
  /\ stopCalls' = Append(stopCalls, outcome)
  /\ sandbox' = IF outcome = "stopped" THEN "stopped" ELSE sandbox
  /\ execResult' = IF outcome = "threw"
                   THEN FailureResult(Msg("sandbox could not be stopped"))
                   ELSE pendingResult

\* Lines 338-341: an exception of sandbox.stop() is swallowed.
StopSandbox(outcome) ==
  /\ stopCalls' = Append(stopCalls, outcome)
  /\ sandbox' = IF outcome = "stopped" THEN "stopped" ELSE sandbox
  /\ execResult' = pendingResult

\* Lines 334-343: the finally block, then the return to the caller.
ExecFinally ==
  /\ epc = "finally"
  /\ IF sandbox = "running"
     THEN \E outcome \in {"stopped", "threw"} : StopSandbox(outcome)
     ELSE /\ execResult' = pendingResult
          /\ UNCHANGED <<sandbox, stopCalls>>
  /\ epc' = "done"
  /\ UNCHANGED <<jobStore, storeOps, lastCall, now, hpc, jobId, permission, wpc, prCommits,
                 analysis, wErr, thrownBy, wFatal, targetExists, unmergedStatuses,
                 reactions, comments, pulls, remote, reportCalls, oracleCalls, execCalls,
                 cpIdx, picked, listing, conflicting, fileIdx, written, staged, writeCalls,
                 stageCalls, resolution, fileRead, resolveRet, unresolved, remoteCmds,
                 aborted, branchCommits, skipped, conflictFiles, resolvedConflicts, eErr,
                 pendingResult, parser, git, race>>

----------------------------------------------------------------------------
(* Workflow, after the executor returned *)

\* Lines 358-361: the log entry about automatically resolved conflicts.
ResolvedMention(n) == <<"AI resolved ", ToString(n), " conflict(s) automatically">>

\* The workflow going on to the pull request whatever the executor returned.
PerformBackportReturnIgnoresResult ==
  /\ wpc = "executing"
  /\ epc = "done"
  /\ jobStore' =
       addJobLog(
         IF execResult.resolvedConflicts > 0
         THEN addJobLog(jobStore, jobId, ResolvedMention(execResult.resolvedConflicts))
         ELSE jobStore,
         jobId,
         IF execResult.success THEN Msg("Backport successful, creating PR...")
         ELSE <<"Backport failed: ">> \o execResult.error)
  /\ wpc' = "describe"
  /\ UNCHANGED <<storeOps, lastCall, now, hpc, jobId, permission, prCommits, analysis,
                 wErr, thrownBy, wFatal, targetExists, reactions, comments, pulls, remote,
                 reportCalls, oracleCalls, epc, execCalls, sandbox, stopCalls, cpIdx,
                 picked, conflicting, fileIdx, written, staged, writeCalls, stageCalls,
                 resolution, resolveRet, unresolved, remoteCmds, aborted, branchCommits,
                 skipped, conflictFiles, resolvedConflicts, eErr, pendingResult, execResult, parser, git, race, fileRead, unmergedStatuses, listing>>

\* Lines 357-364 and 132-134, 170: the result comes back to the workflow.
PerformBackportReturn ==
  /\ wpc = "executing"
  /\ epc = "done"
  /\ jobStore' =
       addJobLog(
         IF execResult.resolvedConflicts > 0
         THEN addJobLog(jobStore, jobId, ResolvedMention(execResult.resolvedConflicts))
         ELSE jobStore,
         jobId,
         IF execResult.success THEN Msg("Backport successful, creating PR...")
         ELSE <<"Backport failed: ">> \o execResult.error)
  /\ wpc' = IF execResult.success THEN "describe" ELSE "report_failure"
  /\ UNCHANGED <<storeOps, lastCall, now, hpc, jobId, permission, prCommits, analysis,
                 wErr, thrownBy, wFatal, targetExists, unmergedStatuses, reactions,
                 comments, pulls, remote, reportCalls, oracleCalls, epc, execCalls,
                 sandbox, stopCalls, cpIdx, picked, listing, conflicting, fileIdx, written,
                 staged, writeCalls, stageCalls, resolution, fileRead, resolveRet,
                 unresolved, remoteCmds, aborted, branchCommits, skipped, conflictFiles,
                 resolvedConflicts, eErr, pendingResult, execResult, parser, git, race>>

\* Lines 136-143: the oracle writes the PR description.
GenerateDescription ==
  /\ wpc = "describe"
  /\ oracleCalls' = Append(oracleCalls, OracleCall("generateBackportPRDescription", 0, 0))
  /\ \/ /\ wpc' = "create_pr"
        /\ UNCHANGED <<wErr, thrownBy, wFatal>>
     \/ WThrow("generateBackportPRDescription", ErrOracle)
  /\ UNCHANGED <<jobStore, storeOps, lastCall, now, hpc, jobId, permission, prCommits,
                 analysis, targetExists, unmergedStatuses, reactions, comments, pulls,
                 remote, reportCalls, epc, execCalls, sandbox, stopCalls, cpIdx, picked,
                 listing, conflicting, fileIdx, written, staged, writeCalls, stageCalls,
                 resolution, fileRead, resolveRet, unresolved, remoteCmds, aborted,
                 branchCommits, skipped, conflictFiles, resolvedConflicts, eErr,
                 pendingResult, execResult, parser, git, race>>

\* Lines 145-152 and 367-389.
CreateBackportPR ==
  /\ wpc = "create_pr"
  /\ \/ \E n \in PRNumbers :
          /\ pulls' = Append(pulls, [number |-> n, head |-> execResult.branch])
          /\ wpc' = "report_success"
          /\ UNCHANGED <<wErr, thrownBy, wFatal>>
     \/ /\ WThrow("createBackportPR", ErrCreatePR)
        /\ UNCHANGED pulls
  /\ UNCHANGED <<jobStore, storeOps, lastCall, now, hpc, jobId, permission, prCommits,
                 analysis, targetExists, unmergedStatuses, reactions, comments, remote,
                 reportCalls, oracleCalls, epc, execCalls, sandbox, stopCalls, cpIdx,
                 picked, listing, conflicting, fileIdx, written, staged, writeCalls,
                 stageCalls, resolution, fileRead, resolveRet, unresolved, remoteCmds,
                 aborted, branchCommits, skipped, conflictFiles, resolvedConflicts, eErr,
                 pendingResult, execResult, parser, git, race>>

\* resultPR of line 145.
ResultPR == pulls[Len(pulls)].number

\* Lines 154-160 and 391-408.
ReportSuccess ==
  /\ wpc = "report_success"
  /\ reportCalls' = Append(reportCalls, SuccessComment(ResultPR))
  /\ \/ /\ comments' = Append(comments, SuccessComment(ResultPR))
        /\ wpc' = "complete"
        /\ UNCHANGED <<wErr, thrownBy, wFatal>>
     \/ /\ WThrow("reportSuccess", ErrComment)
        /\ UNCHANGED comments
  /\ UNCHANGED <<jobStore, storeOps, lastCall, now, hpc, jobId, permission, prCommits,
                 analysis, targetExists, unmergedStatuses, reactions, pulls, remote,
                 oracleCalls, epc, execCalls, sandbox, stopCalls, cpIdx, picked, listing,
                 conflicting, fileIdx, written, staged, writeCalls, stageCalls, resolution,
                 fileRead, resolveRet, unresolved, remoteCmds, aborted, branchCommits,
                 skipped, conflictFiles, resolvedConflicts, eErr, pendingResult,
                 execResult, parser, git, race>>

MarkCompletedNoReference ==
  /\ wpc = "complete"
  /\ jobStore' = addJobLog(updateJob(jobStore, jobId, [status |-> "completed"]),
                           jobId, Msg("Backport PR created"))
  /\ wpc' = "returned"
  /\ UNCHANGED <<storeOps, lastCall, now, handlerVars, prCommits, analysis, wErr, thrownBy,
                 wFatal, hostVars, execVars, parser, git, race, fileRead>>

\* Lines 162-168.
MarkCompleted ==
  /\ wpc = "complete"
  /\ jobStore' = addJobLog(
       updateJob(jobStore, jobId, [status |-> "completed", resultPR |-> ResultPR]),
       jobId, Msg("Backport PR created"))
  /\ wpc' = "returned"
  /\ UNCHANGED <<storeOps, lastCall, now, hpc, jobId, permission, prCommits, analysis,
                 wErr, thrownBy, wFatal, targetExists, unmergedStatuses, reactions,
                 comments, pulls, remote, reportCalls, oracleCalls, epc, execCalls,
                 sandbox, stopCalls, cpIdx, picked, listing, conflicting, fileIdx, written,
                 staged, writeCalls, stageCalls, resolution, fileRead, resolveRet,
                 unresolved, remoteCmds, aborted, branchCommits, skipped, conflictFiles,
                 resolvedConflicts, eErr, pendingResult, execResult, parser, git, race>>

\* Lines 171-177 and 410-427.
ReportFailure ==
  /\ wpc = "report_failure"
  /\ reportCalls' = Append(reportCalls, FailureComment(execResult.error))
  /\ \/ /\ comments' = Append(comments, FailureComment(execResult.error))
        /\ wpc' = "fail"
        /\ UNCHANGED <<wErr, thrownBy, wFatal>>
     \/ /\ WThrow("reportFailure", ErrComment)
        /\ UNCHANGED comments
  /\ UNCHANGED <<jobStore, storeOps, lastCall, now, hpc, jobId, permission, prCommits,
                 analysis, targetExists, unmergedStatuses, reactions, pulls, remote,
                 oracleCalls, epc, execCalls, sandbox, stopCalls, cpIdx, picked, listing,
                 conflicting, fileIdx, written, staged, writeCalls, stageCalls, resolution,
                 fileRead, resolveRet, unresolved, remoteCmds, aborted, branchCommits,
                 skipped, conflictFiles, resolvedConflicts, eErr, pendingResult,
                 execResult, parser, git, race>>

\* Lines 179-184.
MarkFailed ==
  /\ wpc = "fail"
  /\ jobStore' = updateJob(jobStore, jobId,
        [status |-> "failed", error |-> execResult.error])
  /\ wpc' = "returned"
  /\ UNCHANGED <<storeOps, lastCall, now, hpc, jobId, permission, prCommits, analysis,
                 wErr, thrownBy, wFatal, targetExists, unmergedStatuses, reactions,
                 comments, pulls, remote, reportCalls, oracleCalls, epc, execCalls,
                 sandbox, stopCalls, cpIdx, picked, listing, conflicting, fileIdx, written,
                 staged, writeCalls, stageCalls, resolution, fileRead, resolveRet,
                 unresolved, remoteCmds, aborted, branchCommits, skipped, conflictFiles,
                 resolvedConflicts, eErr, pendingResult, execResult, parser, git, race>>

----------------------------------------------------------------------------
(* The conflict parser of resolveConflictWithAI (src/lib/sandbox.ts        *)
(* 369-417), applied to the files a conflicting cherry-pick leaves.  A     *)
(* file's content is a sequence of fragments; a line break is the          *)
(* fragment LF, a marker is the fragment that starts its line.             *)

StartMarker == "<<<<<<<"

Separator == "======="

EndMarker == ">>>>>>>"

LF == "\n"

\* The lines one side of a conflict region may hold.
SectionLines == {<<>>, <<"x">>, <<"y">>, <<"x", "y">>}

\* A conflict region as the merge found it: the target branch's lines
\* (ours) and the cherry-picked commit's lines (theirs).
Regions == [ours : SectionLines, theirs : SectionLines]

\* The regions of one file, in the file's order; none for a conflict
\* without markers (a file deleted on one side, a binary file).
RegionLists == UNION {[1..n -> Regions] : n \in 0..MaxRegions}

\* The lines of a section as lines of the file.
AsLines(section) == [i \in 1..Len(section) |-> <<section[i]>>]

\* The lines git writes for one region.
RegionLines(region) ==
  <<<<StartMarker, " HEAD">>>> \o AsLines(region.ours) \o <<<<Separator>>>> \o
  AsLines(region.theirs) \o <<<<EndMarker, " 1a2b3c4 (commit)">>>>

RECURSIVE MergedLines(_)
\* The lines of the file: unchanged lines around every region.
MergedLines(regions) ==
  IF regions = <<>> THEN <<<<"context">>>>
  ELSE <<<<"context">>>> \o RegionLines(Head(regions)) \o MergedLines(Tail(regions))

RECURSIVE MergedContent(_)
\* The content of the file: every line followed by a line break.
MergedContent(fileLines) ==
  IF fileLines = <<>> THEN <<>>
  ELSE Head(fileLines) \o <<LF>> \o MergedContent(Tail(fileLines))

\* The text of a section: each of its lines followed by a line break.
SectionText(section) == MergedContent(AsLines(section))

\* String.prototype.includes, for a marker.
includes(content, marker) == \E i \in 1..Len(content) : content[i] = marker

\* String.prototype.startsWith, for a marker.
startsWith(line, marker) == Len(line) > 0 /\ line[1] = marker

RECURSIVE split(_, _)
\* String.prototype.split: the pieces between the separators, the one after
\* the last separator included.
split(content, separator) ==
  IF ~includes(content, separator) THEN <<content>>
  ELSE LET k == CHOOSE i \in 1..Len(content) :
                  /\ content[i] = separator
                  /\ \A j \in 1..(i - 1) : content[j] # separator
       IN <<SubSeq(content, 1, k - 1)>> \o
          split(SubSeq(content, k + 1, Len(content)), separator)

NoOracleArguments ==
  [conflictContent |-> <<>>, originalChange |-> <<>>, fileContext |-> <<>>]

\* The parser at rest.
NoParser ==
  [pos |-> "off", regions |-> <<>>, conflictContent |-> <<>>, lines |-> <<>>,
   lineIdx |-> 0, inConflict |-> FALSE, conflictSection |-> <<>>,
   ourSection |-> <<>>, theirSection |-> <<>>, call |-> NoOracleArguments]

\* Line 371: the file as read from the sandbox.
ParserAt(regions) ==
  [NoParser EXCEPT !.pos = "read", !.regions = regions,
                   !.conflictContent = MergedContent(MergedLines(regions))]

\* Lines 394-407: the body of the loop over the lines.
ScanLine(p, line) ==
  IF startsWith(line, StartMarker)
  THEN [p EXCEPT !.inConflict = TRUE, !.conflictSection = <<>>,
                 !.ourSection = <<>>, !.theirSection = <<>>]
  ELSE IF startsWith(line, Separator) /\ p.inConflict
  THEN [p EXCEPT !.ourSection = p.conflictSection, !.conflictSection = <<>>]
  ELSE IF startsWith(line, EndMarker) /\ p.inConflict
  THEN [p EXCEPT !.theirSection = p.conflictSection, !.inConflict = FALSE]
  ELSE IF p.inConflict
  THEN [p EXCEPT !.conflictSection = p.conflictSection \o line \o <<LF>>]
  ELSE p

\* Lines 373-391: without both markers the file is left unresolved;
\* otherwise the content is split into lines and the scan starts.
ParseCheckMarkers ==
  /\ parser.pos = "read"
  /\ parser' =
       IF ~includes(parser.conflictContent, StartMarker) \/
          ~includes(parser.conflictContent, EndMarker)
       THEN [parser EXCEPT !.pos = "returned false"]
       ELSE [parser EXCEPT !.pos = "scan",
                           !.lines = split(parser.conflictContent, LF),
                           !.lineIdx = 1]
  /\ UNCHANGED <<jobStore, storeOps, lastCall, now, hpc, jobId, permission, wpc, prCommits,
                 analysis, wErr, thrownBy, wFatal, targetExists, unmergedStatuses,
                 reactions, comments, pulls, remote, reportCalls, oracleCalls, epc,
                 execCalls, sandbox, stopCalls, cpIdx, picked, listing, conflicting,
                 fileIdx, written, staged, writeCalls, stageCalls, resolution, fileRead,
                 resolveRet, unresolved, remoteCmds, aborted, branchCommits, skipped,
                 conflictFiles, resolvedConflicts, eErr, pendingResult, execResult, git,
                 race>>

\* Lines 393-408: one iteration of the loop.
ParseLine ==
  /\ parser.pos = "scan"
  /\ parser.lineIdx <= Len(parser.lines)
  /\ parser' = [ScanLine(parser, parser.lines[parser.lineIdx])
                  EXCEPT !.lineIdx = parser.lineIdx + 1]
  /\ UNCHANGED <<jobStore, storeOps, lastCall, now, hpc, jobId, permission, wpc, prCommits,
                 analysis, wErr, thrownBy, wFatal, targetExists, unmergedStatuses,
                 reactions, comments, pulls, remote, reportCalls, oracleCalls, epc,
                 execCalls, sandbox, stopCalls, cpIdx, picked, listing, conflicting,
                 fileIdx, written, staged, writeCalls, stageCalls, resolution, fileRead,
                 resolveRet, unresolved, remoteCmds, aborted, branchCommits, skipped,
                 conflictFiles, resolvedConflicts, eErr, pendingResult, execResult, git,
                 race>>

\* Lines 410-417: the oracle is asked, theirSection as the change being
\* cherry-picked (originalChange) and ourSection as the target branch's
\* content (fileContext).
ParseCallOracle ==
  /\ parser.pos = "scan"
  /\ parser.lineIdx > Len(parser.lines)
  /\ parser' = [parser EXCEPT
                  !.pos = "called",
                  !.call = [conflictContent |-> parser.conflictContent,
                            originalChange |-> parser.theirSection,
                            fileContext |-> parser.ourSection]]
  /\ UNCHANGED <<jobStore, storeOps, lastCall, now, hpc, jobId, permission, wpc, prCommits,
                 analysis, wErr, thrownBy, wFatal, targetExists, unmergedStatuses,
                 reactions, comments, pulls, remote, reportCalls, oracleCalls, epc,
                 execCalls, sandbox, stopCalls, cpIdx, picked, listing, conflicting,
                 fileIdx, written, staged, writeCalls, stageCalls, resolution, fileRead,
                 resolveRet, unresolved, remoteCmds, aborted, branchCommits, skipped,
                 conflictFiles, resolvedConflicts, eErr, pendingResult, execResult, git,
                 race>>

----------------------------------------------------------------------------
(* The git commands' log and the installation token, src/lib/sandbox.ts *)

\* config.gitCredentials.token: one fragment of the texts it occurs in.
Token == "ghs_installation_token"

\* No maskToken option given to runGitCommand.
NoMask == "undefined"

\* The longest output of a git command, in fragments.
MaxOutput == 2

\* What a git command prints: pieces of its messages, the remote URL with
\* the token among them.
OutputFragments == {"fatal: unable to access ", Token}

Outputs == UNION {[1..n -> OutputFragments] : n \in 0..MaxOutput}

\* What sandbox.runCommand gives back for a git command.
GitResults == [exitCode : {0, 1}, stdout : Outputs, stderr : Outputs]

\* Line 112.
repoUrl == <<"https://x-access-token:", Token, "@github.com/o/r.git">>

\* Lines 117 and 130-136: the arguments of the clone and of the fetch of the
\* target branch.
CloneArgs == <<"clone ", "--depth 100 ">> \o repoUrl \o <<" repo">>

FetchArgs == <<"fetch ", "--depth 100 ", "origin ", "T:refs/remotes/origin/T">>

\* Lines 143-146: the start of the error a failed fetch throws.
FetchFailed == "Failed to fetch target branch 'T': "

\* String.prototype.replace with a string pattern: the first occurrence.
RECURSIVE replace(_, _, _)
replace(text, pattern, by) ==
  IF text = <<>> THEN <<>>
  ELSE IF Head(text) = pattern THEN <<by>> \o Tail(text)
  ELSE <<Head(text)>> \o replace(Tail(text), pattern, by)

\* Lines 27-74: the entries runGitCommand logs for a command and its result
\* (the lines of one stream are one entry here).
runGitCommand(args, result, maskToken) ==
  LET cmdDisplay == IF maskToken # NoMask
                    THEN replace(<<"git ">> \o args, maskToken, "***")
                    ELSE <<"git ">> \o args
      stderrDisplay == IF maskToken # NoMask
                       THEN replace(result.stderr, maskToken, "***")
                       ELSE result.stderr
  IN  << <<"$ ">> \o cmdDisplay >>
      \o (IF result.stdout # <<>> THEN << <<"  ">> \o result.stdout >> ELSE <<>>)
      \o (IF result.stderr # <<>>
          THEN << <<"  ", IF result.exitCode # 0 THEN "[ERROR] " ELSE "">>
                  \o stderrDisplay >>
          ELSE <<>>)
      \o (IF result.exitCode # 0 THEN << <<"  Exit code: ", "1">> >> ELSE <<>>)

\* backport.ts 352-354: onLog puts every entry of the executor in the job log.
OnLog(entries) == [i \in 1..Len(entries) |-> SandboxLog(entries[i])]

\* No git command under watch.
NoGit ==
  [pos |-> "off", logs |-> <<>>, error |-> <<>>, jobError |-> <<>>, comment |-> <<>>]

\* Lines 111-125: the clone, with the token given to mask; its failure throws
\* with the text of stderr.
GitClone ==
  /\ git.pos = "clone"
  /\ \E result \in GitResults :
       git' = [git EXCEPT
                 !.logs = @ \o OnLog(<< <<"Cloning repository o/r...">> >>
                                     \o runGitCommand(CloneArgs, result, Token)),
                 !.error = IF result.exitCode # 0
                           THEN <<"Failed to clone repository: ">> \o result.stderr
                           ELSE @,
                 !.pos = IF result.exitCode # 0 THEN "catch" ELSE "fetch"]
  /\ UNCHANGED <<jobStore, storeOps, lastCall, now, hpc, jobId, permission, wpc, prCommits,
                 analysis, wErr, thrownBy, wFatal, targetExists, unmergedStatuses,
                 reactions, comments, pulls, remote, reportCalls, oracleCalls, epc,
                 execCalls, sandbox, stopCalls, cpIdx, picked, listing, conflicting,
                 fileIdx, written, staged, writeCalls, stageCalls, resolution, fileRead,
                 resolveRet, unresolved, remoteCmds, aborted, branchCommits, skipped,
                 conflictFiles, resolvedConflicts, eErr, pendingResult, execResult, parser,
                 race>>

\* Lines 127-147: the fetch of the target branch, run without a token to
\* mask, as every command after the clone is.
GitFetch ==
  /\ git.pos = "fetch"
  /\ \E result \in GitResults :
       git' = [git EXCEPT
                 !.logs = @ \o OnLog(<< <<"Fetching target branch: T...">> >>
                                     \o runGitCommand(FetchArgs, result, NoMask)),
                 !.error = IF result.exitCode # 0
                           THEN <<FetchFailed>> \o result.stderr
                           ELSE @,
                 !.pos = IF result.exitCode # 0 THEN "catch" ELSE "fetched"]
  /\ UNCHANGED <<jobStore, storeOps, lastCall, now, hpc, jobId, permission, wpc, prCommits,
                 analysis, wErr, thrownBy, wFatal, targetExists, unmergedStatuses,
                 reactions, comments, pulls, remote, reportCalls, oracleCalls, epc,
                 execCalls, sandbox, stopCalls, cpIdx, picked, listing, conflicting,
                 fileIdx, written, staged, writeCalls, stageCalls, resolution, fileRead,
                 resolveRet, unresolved, remoteCmds, aborted, branchCommits, skipped,
                 conflictFiles, resolvedConflicts, eErr, pendingResult, execResult, parser,
                 race>>

\* Lines 327-333: the catch block logs the message and returns it as the
\* result's error.
GitCatch ==
  /\ git.pos = "catch"
  /\ git' = [git EXCEPT
               !.logs = @ \o OnLog(<< <<"Backport failed: ">> \o git.error >>),
               !.pos = "returned"]
  /\ UNCHANGED <<jobStore, storeOps, lastCall, now, hpc, jobId, permission, wpc, prCommits,
                 analysis, wErr, thrownBy, wFatal, targetExists, unmergedStatuses,
                 reactions, comments, pulls, remote, reportCalls, oracleCalls, epc,
                 execCalls, sandbox, stopCalls, cpIdx, picked, listing, conflicting,
                 fileIdx, written, staged, writeCalls, stageCalls, resolution, fileRead,
                 resolveRet, unresolved, remoteCmds, aborted, branchCommits, skipped,
                 conflictFiles, resolvedConflicts, eErr, pendingResult, execResult, parser,
                 race>>

\* backport.ts 169-184 and 410-427: the failed result is logged, posted as
\* the failure comment and stored as the job's error.
GitReportFailure ==
  /\ git.pos = "returned"
  /\ git' = [git EXCEPT
               !.logs = Append(@, <<"Backport failed: ">> \o git.error),
               !.comment = <<"Failed to backport to T. **Error:** ">> \o git.error
                           \o <<" Please try backporting manually.">>,
               !.jobError = git.error,
               !.pos = "failed"]
  /\ UNCHANGED <<jobStore, storeOps, lastCall, now, hpc, jobId, permission, wpc, prCommits,
                 analysis, wErr, thrownBy, wFatal, targetExists, unmergedStatuses,
                 reactions, comments, pulls, remote, reportCalls, oracleCalls, epc,
                 execCalls, sandbox, stopCalls, cpIdx, picked, listing, conflicting,
                 fileIdx, written, staged, writeCalls, stageCalls, resolution, fileRead,
                 resolveRet, unresolved, remoteCmds, aborted, branchCommits, skipped,
                 conflictFiles, resolvedConflicts, eErr, pendingResult, execResult, parser,
                 race>>

----------------------------------------------------------------------------
(* The push phase of two runs for one pull request and target branch,      *)
(* src/lib/sandbox.ts 288-317 and src/workflows/backport.ts 145-152         *)

\* Two jobs started by two /backport comments naming the same target branch
\* on the same pull request: both use the branch name of line 183.
RacingJobs == {"job_a", "job_b"}

\* Where a remote branch of that name comes from: a previous attempt that
\* failed after its push, an earlier run that succeeded (the branch backs its
\* result pull request), or one of the two jobs.
LeftByFailedAttempt == "failed_attempt"

BacksEarlierResult == "earlier_result"

NoRemoteBranch == [exists |-> FALSE, from |-> "none"]

RemoteBranchOf(origin) == [exists |-> TRUE, from |-> origin]

\* No push phase under watch.
NoRace ==
  [remote |-> NoRemoteBranch, pos |-> <<>>, removed |-> <<>>, openPRs |-> {}]

\* Lines 294-305: `git push origin --delete <branch>`, whatever the branch
\* holds; the exit code only chooses the log entry.  The host removes the
\* branch, and a pull request whose head it was is closed with it; or the
\* command fails.
RaceDelete(j) ==
  /\ race.pos[j] = "delete"
  /\ \E removed \in IF race.remote.exists THEN BOOLEAN ELSE {FALSE} :
       race' = [race EXCEPT
                  !.remote = IF removed THEN NoRemoteBranch ELSE @,
                  !.removed[j] = IF removed THEN race.remote.from ELSE @,
                  !.openPRs = IF removed THEN @ \ {race.remote.from} ELSE @,
                  !.pos[j] = "push"]

\* Lines 307-317: `git push origin <branch>`; a push to a name that carries
\* other commits is rejected; a failed push throws.
RacePush(j) ==
  /\ race.pos[j] = "push"
  /\ \/ /\ ~race.remote.exists
        /\ race' = [race EXCEPT !.remote = RemoteBranchOf(j), !.pos[j] = "create_pr"]
     \/ race' = [race EXCEPT !.pos[j] = "failed"]

\* backport.ts 145-152 and 367-389: the result pull request, with the branch
\* as its head; the host refuses a head that is gone or not this job's push.
RaceCreatePR(j) ==
  /\ race.pos[j] = "create_pr"
  /\ \/ /\ race.remote = RemoteBranchOf(j)
        /\ race' = [race EXCEPT !.openPRs = @ \cup {j}, !.pos[j] = "completed"]
     \/ race' = [race EXCEPT !.pos[j] = "failed"]

RaceDeleteStep ==
  /\ \E j \in RacingJobs : RaceDelete(j)
  /\ UNCHANGED <<jobStore, storeOps, lastCall, now, hpc, jobId, permission, wpc, prCommits,
                 analysis, wErr, thrownBy, wFatal, targetExists, unmergedStatuses,
                 reactions, comments, pulls, remote, reportCalls, oracleCalls, epc,
                 execCalls, sandbox, stopCalls, cpIdx, picked, listing, conflicting,
                 fileIdx, written, staged, writeCalls, stageCalls, resolution, fileRead,
                 resolveRet, unresolved, remoteCmds, aborted, branchCommits, skipped,
                 conflictFiles, resolvedConflicts, eErr, pendingResult, execResult, parser,
                 git>>

RacePushStep ==
  /\ \E j \in RacingJobs : RacePush(j)
  /\ UNCHANGED <<jobStore, storeOps, lastCall, now, hpc, jobId, permission, wpc, prCommits,
                 analysis, wErr, thrownBy, wFatal, targetExists, unmergedStatuses,
                 reactions, comments, pulls, remote, reportCalls, oracleCalls, epc,
                 execCalls, sandbox, stopCalls, cpIdx, picked, listing, conflicting,
                 fileIdx, written, staged, writeCalls, stageCalls, resolution, fileRead,
                 resolveRet, unresolved, remoteCmds, aborted, branchCommits, skipped,
                 conflictFiles, resolvedConflicts, eErr, pendingResult, execResult, parser,
                 git>>

RaceCreatePRStep ==
  /\ \E j \in RacingJobs : RaceCreatePR(j)
  /\ UNCHANGED <<jobStore, storeOps, lastCall, now, hpc, jobId, permission, wpc, prCommits,
                 analysis, wErr, thrownBy, wFatal, targetExists, unmergedStatuses,
                 reactions, comments, pulls, remote, reportCalls, oracleCalls, epc,
                 execCalls, sandbox, stopCalls, cpIdx, picked, listing, conflicting,
                 fileIdx, written, staged, writeCalls, stageCalls, resolution, fileRead,
                 resolveRet, unresolved, remoteCmds, aborted, branchCommits, skipped,
                 conflictFiles, resolvedConflicts, eErr, pendingResult, execResult, parser,
                 git>>

----------------------------------------------------------------------------
(* The run of one trigger: handler, workflow, executor *)

InitExec ==
  /\ epc = "idle"
  /\ execCalls = 0
  /\ sandbox = "none"
  /\ stopCalls = <<>>
  /\ cpIdx = 0
  /\ picked = <<>>
  /\ listing = <<>>
  /\ conflicting = <<>>
  /\ fileIdx = 0
  /\ written = {}
  /\ staged = {}
  /\ writeCalls = {}
  /\ stageCalls = {}
  /\ resolution = NoResolution
  /\ fileRead = "none"
  /\ resolveRet = "none"
  /\ unresolved = <<>>
  /\ remoteCmds = <<>>
  /\ aborted = <<>>
  /\ branchCommits = <<>>
  /\ skipped = <<>>
  /\ conflictFiles = <<>>
  /\ resolvedConflicts = 0
  /\ eErr = NoText
  /\ pendingResult = NoResult
  /\ execResult = NoResult

InitRun ==
  /\ jobStore = <<>>
  /\ storeOps = 0
  /\ lastCall = NoCall
  /\ now = 0
  /\ jobId = NoJobId
  /\ wpc = "idle"
  /\ prCommits = <<>>
  /\ analysis = NoAnalysis
  /\ wErr = NoText
  /\ thrownBy = "none"
  /\ wFatal = FALSE
  /\ reactions = 0
  /\ comments = <<>>
  /\ pulls = <<>>
  /\ reportCalls = <<>>
  /\ oracleCalls = <<>>
  /\ InitExec

\* A request whose requester was found to have write access.
Init ==
  /\ InitRun
  /\ parser = NoParser
  /\ git = NoGit
  /\ race = NoRace
  /\ unmergedStatuses = BothModified
  /\ hpc = "create"
  /\ permission = "write"
  /\ remote \in {NoBranch, StaleBranch}
  /\ targetExists \in BOOLEAN

Next ==
  \/ HandlerCreateJob
  \/ HandlerMarkInProgress
  \/ HandlerStart
  \/ HandlerStartThrows
  \/ AcknowledgeRequest
  \/ FetchPRDetails
  \/ ValidateTargetBranch
  \/ AnalyzeChangesWithAI
  \/ Gate
  \/ GateReport
  \/ GateMarkFailed
  \/ PerformBackport
  \/ ExecCreateSandbox
  \/ ExecSetup
  \/ ExecCherryPick
  \/ ExecReadConflict
  \/ ExecOracle
  \/ ExecApply
  \/ ExecResolveReturn
  \/ ExecCommit
  \/ ExecPush
  \/ ExecCatch
  \/ ExecFinally
  \/ PerformBackportReturn
  \/ GenerateDescription
  \/ CreateBackportPR
  \/ ReportSuccess
  \/ MarkCompleted
  \/ ReportFailure
  \/ MarkFailed
  \/ CatchBlock

Spec == Init /\ [][Next]_vars

\* A request at the permission check of lines 178-211.
InitTrigger ==
  /\ InitRun
  /\ parser = NoParser
  /\ git = NoGit
  /\ race = NoRace
  /\ unmergedStatuses = BothModified
  /\ hpc = "permission"
  /\ permission = PermissionUnknown
  /\ remote = NoBranch
  /\ targetExists = TRUE

NextTrigger ==
  \/ HandlerCheckPermission
  \/ Next

SpecTrigger == InitTrigger /\ [][NextTrigger]_vars

\* The handler, the workflow and the executor are sequential code: a run
\* that can take a step takes it.
FairSpec == Spec /\ WF_vars(Next)

\* A run that finds the target branch, and on the remote the branch of an
\* earlier attempt, so that the deletion before the push has something to
\* delete: the executor reaches every one of its commands and every way each
\* of them fails.
InitExecutor ==
  /\ InitRun
  /\ parser = NoParser
  /\ git = NoGit
  /\ race = NoRace
  /\ unmergedStatuses = BothModified
  /\ hpc = "create"
  /\ permission = "write"
  /\ remote = StaleBranch
  /\ targetExists = TRUE

FairSpecExecutor == InitExecutor /\ [][Next]_vars /\ WF_vars(Next)

----------------------------------------------------------------------------
(* The job store under its direct clients: the exported functions of       *)
(* src/lib/jobs.ts and the agent's logging tools (agent-tools/logging.ts,  *)
(* src/unnamed/part_004), called in any order with any arguments.          *)

ToolErrors == {Msg("agent gave up")}

\* An update naming the fields `fields`.
UpdateOf(fields, status, resultPR, error) ==
  [f \in fields |->
     IF f = "status" THEN status ELSE IF f = "resultPR" THEN resultPR ELSE error]

\* Partial<Omit<BackportJob, "id" | "createdAt" | "logs">>, the modelled fields.
Updates ==
  {UpdateOf(fields, status, resultPR, error) :
     fields \in SUBSET {"status", "resultPR", "error"}, status \in Statuses,
     resultPR \in PRNumbers, error \in ToolErrors}

Found(id) == IF id \in DOMAIN jobStore THEN jobStore[id].status ELSE "none"

\* The ids a client holds: those of the stored jobs, and a stale one.
ClientJobIds == DOMAIN jobStore \cup {StaleJobId}

\* The messages of the orchestrator and of the executor's onLog callback
\* (backport.ts lines 352-354).
LogMessages == {Msg("progress"), SandboxLog(Msg("progress"))}

\* One call of a client; the clock may move on before the next one.
Call(op, id, updates, message, ret) ==
  /\ storeOps < MaxStoreOps
  /\ storeOps' = storeOps + 1
  /\ lastCall' = [op |-> op, id |-> id, before |-> Found(id), updates |-> updates,
                  message |-> message, ret |-> ret]
  /\ \E t \in {now, now + 1} : now' = t

\* jobs.ts lines 31-50: generateJobId draws the id from the clock and a random number.
StoreCreateJob ==
  /\ \E r \in Randoms :
       /\ Call("createJob", generateJobId(now, r), NoUpdates, NoText,
               NewJob(generateJobId(now, r)))
       /\ jobStore' = createJob(jobStore, generateJobId(now, r))
  /\ UNCHANGED <<hpc, jobId, permission, wpc, prCommits, analysis, wErr, thrownBy, wFatal,
                 targetExists, unmergedStatuses, reactions, comments, pulls, remote,
                 reportCalls, oracleCalls, epc, execCalls, sandbox, stopCalls, cpIdx,
                 picked, listing, conflicting, fileIdx, written, staged, writeCalls,
                 stageCalls, resolution, fileRead, resolveRet, unresolved, remoteCmds,
                 aborted, branchCommits, skipped, conflictFiles, resolvedConflicts, eErr,
                 pendingResult, execResult, parser, git, race>>

\* jobs.ts lines 56-71.
StoreUpdateJob ==
  /\ \E id \in ClientJobIds, u \in Updates :
       /\ Call("updateJob", id, u, NoText, updateJobReturn(jobStore, id, u))
       /\ jobStore' = updateJob(jobStore, id, u)
  /\ UNCHANGED <<hpc, jobId, permission, wpc, prCommits, analysis, wErr, thrownBy, wFatal,
                 targetExists, unmergedStatuses, reactions, comments, pulls, remote,
                 reportCalls, oracleCalls, epc, execCalls, sandbox, stopCalls, cpIdx,
                 picked, listing, conflicting, fileIdx, written, staged, writeCalls,
                 stageCalls, resolution, fileRead, resolveRet, unresolved, remoteCmds,
                 aborted, branchCommits, skipped, conflictFiles, resolvedConflicts, eErr,
                 pendingResult, execResult, parser, git, race>>

\* jobs.ts lines 73-83.
StoreAddJobLog ==
  /\ \E id \in ClientJobIds, m \in LogMessages :
       /\ Call("addJobLog", id, NoUpdates, m, Void)
       /\ jobStore' = addJobLog(jobStore, id, m)
  /\ UNCHANGED <<hpc, jobId, permission, wpc, prCommits, analysis, wErr, thrownBy, wFatal,
                 targetExists, unmergedStatuses, reactions, comments, pulls, remote,
                 reportCalls, oracleCalls, epc, execCalls, sandbox, stopCalls, cpIdx,
                 picked, listing, conflicting, fileIdx, written, staged, writeCalls,
                 stageCalls, resolution, fileRead, resolveRet, unresolved, remoteCmds,
                 aborted, branchCommits, skipped, conflictFiles, resolvedConflicts, eErr,
                 pendingResult, execResult, parser, git, race>>

\* part_004 lines 47-57: the update the tool builds from its input.
ToolUpdates(status, resultPR, error) ==
  UpdateOf({"status"} \cup (IF resultPR # 0 THEN {"resultPR"} ELSE {})
                      \cup (IF error # NoText THEN {"error"} ELSE {}),
           status, resultPR, error)

\* part_004 lines 31-63: the updateJobStatus tool.
ToolUpdateJobStatus ==
  /\ \E id \in ClientJobIds, status \in Statuses, resultPR \in PRNumbers \cup {0},
        error \in ToolErrors \cup {NoText} :
       /\ Call("updateJobStatus", id, ToolUpdates(status, resultPR, error), NoText, Void)
       /\ jobStore' = updateJob(jobStore, id, ToolUpdates(status, resultPR, error))
  /\ UNCHANGED <<hpc, jobId, permission, wpc, prCommits, analysis, wErr, thrownBy, wFatal,
                 targetExists, unmergedStatuses, reactions, comments, pulls, remote,
                 reportCalls, oracleCalls, epc, execCalls, sandbox, stopCalls, cpIdx,
                 picked, listing, conflicting, fileIdx, written, staged, writeCalls,
                 stageCalls, resolution, fileRead, resolveRet, unresolved, remoteCmds,
                 aborted, branchCommits, skipped, conflictFiles, resolvedConflicts, eErr,
                 pendingResult, execResult, parser, git, race>>

\* part_004 lines 13-26: the logProgress tool.
ToolLogProgress ==
  /\ \E id \in ClientJobIds :
       /\ Call("logProgress", id, NoUpdates, Msg("agent progress"), Void)
       /\ jobStore' = addJobLog(jobStore, id, Msg("agent progress"))
  /\ UNCHANGED <<hpc, jobId, permission, wpc, prCommits, analysis, wErr, thrownBy, wFatal,
                 targetExists, unmergedStatuses, reactions, comments, pulls, remote,
                 reportCalls, oracleCalls, epc, execCalls, sandbox, stopCalls, cpIdx,
                 picked, listing, conflicting, fileIdx, written, staged, writeCalls,
                 stageCalls, resolution, fileRead, resolveRet, unresolved, remoteCmds,
                 aborted, branchCommits, skipped, conflictFiles, resolvedConflicts, eErr,
                 pendingResult, execResult, parser, git, race>>

InitStore ==
  /\ InitRun
  /\ parser = NoParser
  /\ git = NoGit
  /\ race = NoRace
  /\ unmergedStatuses = BothModified
  /\ hpc = "off"
  /\ permission = PermissionUnknown
  /\ remote = NoBranch
  /\ targetExists = TRUE

NextStore ==
  \/ StoreCreateJob
  \/ StoreUpdateJob
  \/ StoreAddJobLog
  \/ ToolUpdateJobStatus
  \/ ToolLogProgress

SpecStore == InitStore /\ [][NextStore]_vars

----------------------------------------------------------------------------
(* The conflict parser on its own: every file, parsed to the oracle call *)

\* A conflicted file, about to be parsed.
InitParse ==
  /\ InitRun
  /\ hpc = "off"
  /\ permission = PermissionUnknown
  /\ remote = NoBranch
  /\ targetExists = TRUE
  /\ \E regions \in RegionLists : parser = ParserAt(regions)
  /\ git = NoGit
  /\ race = NoRace
  /\ unmergedStatuses = BothModified

NextParse ==
  \/ ParseCheckMarkers
  \/ ParseLine
  \/ ParseCallOracle

SpecParse == InitParse /\ [][NextParse]_vars

----------------------------------------------------------------------------
(* The first git commands of a run on their own: every output they print *)

InitMask ==
  /\ InitRun
  /\ hpc = "off"
  /\ permission = PermissionUnknown
  /\ remote = NoBranch
  /\ targetExists = TRUE
  /\ parser = NoParser
  /\ unmergedStatuses = BothModified
  /\ git = [NoGit EXCEPT !.pos = "clone"]
  /\ race = NoRace

NextMask ==
  \/ GitClone
  \/ GitFetch
  \/ GitCatch
  \/ GitReportFailure

SpecMask == InitMask /\ [][NextMask]_vars

----------------------------------------------------------------------------
(* A run whose cherry-picks may leave files unmerged in every way *)

\* As Init, with every unmerged status of git among the listings.
InitUnmerged ==
  /\ InitRun
  /\ parser = NoParser
  /\ git = NoGit
  /\ race = NoRace
  /\ unmergedStatuses = UnmergedStatuses
  /\ hpc = "create"
  /\ permission = "write"
  /\ remote = NoBranch
  /\ targetExists = TRUE

SpecUnmerged == InitUnmerged /\ [][Next]_vars

----------------------------------------------------------------------------
(* Two runs reaching the push phase, against every remote branch they may   *)
(* find                                                                     *)

InitRace ==
  /\ InitRun
  /\ hpc = "off"
  /\ permission = PermissionUnknown
  /\ remote = NoBranch
  /\ targetExists = TRUE
  /\ parser = NoParser
  /\ git = NoGit
  /\ unmergedStatuses = BothModified
  /\ \E found \in {NoRemoteBranch, RemoteBranchOf(LeftByFailedAttempt),
                  RemoteBranchOf(BacksEarlierResult)} :
       race = [remote |-> found,
               pos |-> [j \in RacingJobs |-> "delete"],
               removed |-> [j \in RacingJobs |-> "none"],
               openPRs |-> IF found.from = BacksEarlierResult
                           THEN {BacksEarlierResult} ELSE {}]

NextRace ==
  \/ RaceDeleteStep
  \/ RacePushStep
  \/ RaceCreatePRStep

SpecRace == InitRace /\ [][NextRace]_vars

----------------------------------------------------------------------------
(* Properties *)

\* The job of the run; defined once the handler created it.
Job == jobStore[jobId]

InSeq(x, s) == \E i \in 1..Len(s) : s[i] = x

\* `part` occurs in `text` as a run of consecutive fragments.
Carries(text, part) ==
  \E i \in 1..(Len(text) + 1) :
     /\ i + Len(part) - 1 <= Len(text)
     /\ SubSeq(text, i, i + Len(part) - 1) = part

\* s without the elements of `removed`, order kept.
RECURSIVE Without(_, _)
Without(s, removed) ==
  IF s = <<>> THEN <<>>
  ELSE IF InSeq(Head(s), removed) THEN Without(Tail(s), removed)
       ELSE <<Head(s)>> \o Without(Tail(s), removed)

WorkflowEnded == wpc \in {"returned", "thrown"}

\* The feasibility result is canBackport = false with confidence > 0.8.
RefusingAnalysis == ~analysis.canBackport /\ analysis.confidence > 80

\* A failure comment that carries the oracle's reasons and recommendations.
CarriesOracleTexts(c) ==
  /\ c.kind = "failure"
  /\ Carries(c.error, analysis.potentialConflicts)
  /\ Carries(c.error, analysis.recommendations)

C3_InputOrder ==
  LET settled == Len(branchCommits) + Len(skipped) IN
  /\ Len(picked) <= Len(prCommits)
  /\ picked = SubSeq(prCommits, 1, Len(picked))
  /\ Len(picked) \in {settled, settled + 1}
  /\ branchCommits = Without(SubSeq(prCommits, 1, settled), skipped)
  /\ pendingResult.success =>
       /\ settled = Len(prCommits)
       /\ remote = [exists |-> TRUE, commits |-> Without(prCommits, skipped)]

C3_Witness ==
  /\ prCommits = <<2, 1>>
  /\ branchCommits = <<2, 1>>
  /\ pendingResult.success
  /\ remote.commits = <<2, 1>>

\* C4: if a file of a commit's conflict set cannot be resolved, the
\* cherry-pick is aborted, no commit is created for that commit, no later
\* commit is attempted, nothing is deleted from or pushed to the remote, no
\* pull request is opened, and the result has success = false.
C4_UnresolvedStopsAll ==
  unresolved # <<>> =>
    LET c == unresolved[1][1] IN
    /\ Len(unresolved) = 1
    /\ epc \in {"resolved?", "catch", "finally", "done"}
    /\ epc # "resolved?" => aborted = <<c>>
    /\ picked # <<>> /\ picked[Len(picked)] = c
    /\ ~InSeq(c, branchCommits)
    /\ ~InSeq(c, skipped)
    /\ Len(branchCommits) + Len(skipped) = Len(picked) - 1
    /\ remoteCmds = <<>>
    /\ remote \in {NoBranch, StaleBranch}
    /\ pulls = <<>>
    /\ ~pendingResult.success
    /\ epc = "done" =>
         /\ ~execResult.success
         /\ execResult.error = ErrConflict(unresolved[1][2])

C4_Witness ==
  /\ unresolved = <<<<1, 2>>>>
  /\ prCommits = <<2, 1>>
  /\ branchCommits = <<2>>
  /\ epc = "done"
  /\ remote = StaleBranch

\* C5: when the oracle returned a resolution for a file with conflict
\* markers, resolveConflictWithAI calls writeFiles for the file if and only
\* if the confidence is >= 0.7, and runs `git add` on it exactly when that
\* write returned; below 0.7 the file is neither written nor staged and is
\* unresolved; a file written and staged counts as resolved; whether the
\* proposed content still holds markers plays no part.
C5_AcceptThreshold ==
  (epc = "resolved?" /\ resolution \in Resolutions) =>
    LET f == conflicting[fileIdx] IN
    /\ (f \in writeCalls) <=> (resolution.confidence >= 70)
    /\ (f \in stageCalls) <=> (f \in written)
    /\ f \in written => f \in writeCalls
    /\ f \in staged => f \in stageCalls
    /\ resolution.confidence < 70 =>
         /\ f \notin written
         /\ f \notin staged
         /\ resolveRet = "unresolved"
    /\ resolveRet = "resolved" => f \in written
    /\ (f \in written /\ f \in staged) => resolveRet = "resolved"

C5_Witness ==
  /\ epc = "resolved?"
  /\ resolution = [confidence |-> 70, markers |-> TRUE]
  /\ resolveRet = "resolved"
  /\ conflicting[fileIdx] \in written
  /\ conflicting[fileIdx] \in staged

\* C6: updateJob, also through the updateJobStatus tool, never takes a job
\* from 'completed' or 'failed' to 'pending' or 'in_progress'.
C6_NoResurrection ==
  (lastCall.op \in {"updateJob", "updateJobStatus"} /\ lastCall.before \in Terminal) =>
    jobStore[lastCall.id].status \in Terminal

\* C7: over the trigger handler and the workflow the job's status only
\* moves pending -> in_progress -> completed | failed: the job is created
\* pending, and a status, once completed or failed, never changes.
C7_StatusMonotonic ==
  [][IF jobId \in DOMAIN jobStore
     THEN \/ jobStore'[jobId'].status = Job.status
          \/ <<Job.status, jobStore'[jobId'].status>> \in
               {<<"pending", "in_progress">>, <<"in_progress", "completed">>,
                <<"in_progress", "failed">>}
     ELSE jobId' \in DOMAIN jobStore' => jobStore'[jobId'].status = "pending"]_vars

C7_Witness ==
  /\ wpc = "thrown"
  /\ thrownBy = "reportSuccess"
  /\ Job.status = "failed"

\* C8: an exception of any workflow step is caught at the top level, a
\* 'Workflow error' entry is logged and the job ends 'failed' with the
\* exception's message as its error; no exit of the workflow, by return or by
\* throw, leaves the job 'pending' or 'in_progress'.
C8_ExceptionsFailJob ==
  /\ wpc = "thrown" =>
       /\ wErr # NoText
       /\ Job.status = "failed"
       /\ Job.error = wErr
       /\ InSeq(<<"Workflow error: ">> \o wErr, Job.logs)
  /\ WorkflowEnded => Job.status \in Terminal

C8_Witness ==
  /\ wpc = "thrown"
  /\ thrownBy = "createBackportPR"
  /\ Job.error = ErrCreatePR

\* C9: an execution of executeBackport that provisioned a sandbox calls
\* sandbox.stop() exactly once before it returns, whether it succeeds, fails
\* or a step throws; the result the caller receives is the one the try or
\* catch block returned, also when stop() itself fails.
C9_SandboxReleased ==
  /\ Len(stopCalls) <= 1
  /\ stopCalls # <<>> => epc = "done"
  /\ epc = "done" =>
       /\ (sandbox # "none") <=> (Len(stopCalls) = 1)
       /\ pendingResult # NoResult
       /\ execResult = pendingResult
  /\ epc # "done" => execResult = NoResult

C9_Witness ==
  /\ epc = "done"
  /\ stopCalls = <<"threw">>
  /\ execResult.success

\* C10: a failure of the Acknowledge step is not fatal: the workflow goes on
\* and the job is not failed because of it.
C10_AcknowledgeNotFatal ==
  thrownBy = "acknowledgeRequest" =>
    /\ wpc \notin {"catch", "thrown"}
    /\ ~(Job.status = "failed" /\ Job.error = ErrAcknowledge)

\* C11: if the target branch does not exist, ValidateTargetBranch fails with
\* a FatalError (not retried) whose text contains "does not exist", the job
\* ends 'failed' with that text as its error, and neither the oracle analysis
\* nor executeBackport (no sandbox) is performed in the run.
C11_MissingBranchFatal ==
  /\ ~targetExists =>
       /\ wpc \in {"idle", "acknowledge", "fetch", "validate", "catch", "thrown"}
       /\ wpc \in {"catch", "thrown"} =>
            thrownBy \in {"acknowledgeRequest", "fetchPRDetails", "validateTargetBranch"}
       /\ analysis = NoAnalysis
       /\ jobId \in DOMAIN jobStore =>
            ~InSeq(Msg("Analyzing changes with AI..."), Job.logs)
       /\ execCalls = 0
       /\ sandbox = "none"
       /\ epc = "idle"
  /\ thrownBy = "validateTargetBranch" =>
       /\ wFatal
       /\ Carries(wErr, <<"does not exist">>)
       /\ wpc = "thrown" =>
            /\ Job.status = "failed"
            /\ Carries(Job.error, <<"does not exist">>)

C11_Witness ==
  /\ ~targetExists
  /\ wpc = "thrown"
  /\ thrownBy = "validateTargetBranch"
  /\ Job.status = "failed"
  /\ Job.error = ErrBranchMissing

\* C12: every run of the workflow that ends with the job in a terminal state
\* has made exactly one report on the source pull request: one success
\* comment together with one result PR when the job is 'completed', one
\* failure comment when it is 'failed', also when the failure is a thrown
\* exception.
C12_ExactlyOneReport ==
  (WorkflowEnded /\ Job.status \in Terminal) =>
    /\ Len(reportCalls) = 1
    /\ Job.status = "completed" =>
         /\ reportCalls[1].kind = "success"
         /\ Len(pulls) = 1
    /\ Job.status = "failed" => reportCalls[1].kind = "failure"

\* The manual-recovery command sequence for the commits `commits`: fetch the
\* target branch, create a local branch from it, cherry-pick each commit,
\* push.
RecoveryFetch == <<"git fetch origin T">>

RecoveryCherryPick(c) == <<"git cherry-pick -x ", ToString(c)>>

\* C13: every failure comment the workflow posts contains, besides the
\* error, the manual-recovery commands, with a cherry-pick line for every
\* original commit of the pull request.
C13_RecoveryCommands ==
  \A i \in 1..Len(comments) :
     comments[i].kind = "failure" =>
       /\ Carries(comments[i].body, comments[i].error)
       /\ Carries(comments[i].body, RecoveryFetch)
       /\ \A j \in 1..Len(prCommits) :
            Carries(comments[i].body, RecoveryCherryPick(prCommits[j]))

\* C14: whenever the workflow has ended with the job 'failed', the job's
\* error is the error text of the failure comment posted in that run, on the
\* gate, executor-failure and exception paths alike.
C14_ErrorMirrorsComment ==
  (WorkflowEnded /\ Job.status = "failed") =>
    \E i \in 1..Len(comments) :
       /\ comments[i].kind = "failure"
       /\ comments[i].error = Job.error

C16_FailureListsConflicts ==
  (epc = "done" /\ unresolved # <<>>) =>
    /\ ~execResult.success
    /\ execResult.error # NoText
    /\ InSeq(unresolved[1][2], execResult.conflictFiles)

\* The number of conflicted files of the run whose resolution was accepted,
\* counted from the log entries of the cherry-pick loop.
AcceptedResolutions ==
  Cardinality({i \in 1..Len(Job.logs) : Job.logs[i] = SandboxLog(ResolveLog(TRUE))})

SuccessReturned == wpc = "returned" /\ Job.status = "completed"

\* C17: on a successful backport the resolvedConflicts of the success result
\* is the number of conflicted files whose resolution was accepted, over all
\* commits, and when it is not zero the success comment mentions it.
C17_ResolvedCountReported ==
  SuccessReturned =>
    /\ execResult.success
    /\ execResult.resolvedConflicts = AcceptedResolutions
    /\ AcceptedResolutions > 0 =>
         \E i \in 1..Len(comments) :
            /\ comments[i].kind = "success"
            /\ Carries(comments[i].body, ResolvedMention(AcceptedResolutions))

\* So far in the run the workflow was started, the gate did not refuse, no
\* step or command failed and no cherry-pick left a conflict.
CleanRun ==
  /\ ~(hpc = "done" /\ wpc = "idle")
  /\ ~RefusingAnalysis
  /\ thrownBy = "none"
  /\ eErr = NoText
  /\ conflictFiles = <<>>

Completed == wpc = "returned" /\ Job.status = "completed"

C18_CleanRunOrder ==
  (CleanRun /\ jobId \in DOMAIN jobStore) =>
    /\ Job.status \in {"pending", "in_progress", "completed"}
    /\ ~InSeq(SandboxLog(Msg("Calling AI for conflict resolution...")), Job.logs)
    /\ epc = "done" =>
         /\ execResult.success
         /\ execResult.conflictFiles = <<>>
    /\ comments # <<>> =>
         /\ Len(pulls) = 1
         /\ comments = <<SuccessComment(pulls[1].number)>>
    /\ Job.status = "completed" =>
         /\ Len(pulls) = 1
         /\ Len(comments) = 1
         /\ Job.resultPR = pulls[1].number
    /\ wpc = "returned" => Job.status = "completed"

\* C18: a run in which the gate lets the analysis pass, every commit applies
\* without conflict and every call succeeds ends with the job 'completed'
\* and its resultPR the number of the PR that was opened; the PR is opened
\* before the success comment is posted and both before the status becomes
\* 'completed'; no conflict-resolution oracle call is made and the result's
\* conflict list is empty.
C18_CleanRunCompletes ==
  /\ []C18_CleanRunOrder
  /\ <>(~CleanRun \/ Completed)

C18_Witness ==
  /\ CleanRun
  /\ Completed
  /\ Len(prCommits) = 2
  /\ analysis.canBackport /\ analysis.confidence = 95
  /\ branchCommits = prCommits
  /\ Job.resultPR = 41
  /\ execResult.conflictFiles = <<>>

\* The push phase of executeBackport has run.
PushPhaseDone == remoteCmds # <<>>

\* The branch a run leaves on the remote when its push went through.
PushedBranch == [exists |-> TRUE, commits |-> branchCommits]

JobCreatedOrStarted == hpc \in {"mark", "start", "done"} \/ wpc # "idle"

\* C20: a job is created and the workflow started only for a requester whose
\* permission level was found to be admin, write or maintain; once the check
\* is over with any other outcome, a level outside that list or no level at
\* all, the handler has returned, the denial is the one comment posted, no job
\* exists and the workflow is not started.
C20_PermissionGate ==
  /\ JobCreatedOrStarted => permission \in {"admin", "write", "maintain"}
  /\ (hpc # "permission" /\ permission \notin {"admin", "write", "maintain"}) =>
       /\ hpc = "denied"
       /\ comments = <<DeniedComment>>
       /\ DOMAIN jobStore = {}
       /\ wpc = "idle"

\* C21: no oracle operation is called twice for the same occurrence in a
\* run: analyzeDiff, analyzeBackportFeasibility and
\* generateBackportPRDescription are called at most once each and
\* suggestConflictResolution at most once per commit and conflicted file,
\* whether the call returned or failed; analyzeBackportFeasibility is called
\* only after analyzeDiff, and executeBackport is called at most once.
C21_OracleCalledOnce ==
  /\ \A i, j \in 1..Len(oracleCalls) : oracleCalls[i] = oracleCalls[j] => i = j
  /\ \A i \in 1..Len(oracleCalls) :
       oracleCalls[i].op = "analyzeBackportFeasibility" =>
         i > 1 /\ oracleCalls[i - 1].op = "analyzeDiff"
  /\ execCalls <= 1

C21_Witness ==
  /\ wpc = "returned"
  /\ Len(oracleCalls) = 5
  /\ oracleCalls[3] = OracleCall("suggestConflictResolution", prCommits[1], 1)
  /\ oracleCalls[4] = OracleCall("suggestConflictResolution", prCommits[1], 2)
  /\ oracleCalls[5].op = "generateBackportPRDescription"

\* A step of the store's clients that is a call of `ops`.
IsCall(ops) == storeOps' # storeOps /\ lastCall'.op \in ops

\* C22: addJobLog (also called through the logProgress tool) with an id that
\* is not in the store returns normally, adds no job and leaves the record of
\* every stored job as it was: log, status, timestamps and all other fields.
C22_LogUnknownJobNoOp ==
  [][(IsCall({"addJobLog", "logProgress"}) /\ lastCall'.id \notin DOMAIN jobStore) =>
       /\ lastCall'.ret = Void
       /\ DOMAIN jobStore' = DOMAIN jobStore
       /\ \A id \in DOMAIN jobStore : jobStore'[id] = jobStore[id]]_vars

C22_Witness ==
  /\ lastCall.op = "addJobLog"
  /\ lastCall.id = StaleJobId
  /\ lastCall.before = "none"
  /\ lastCall.message = SandboxLog(Msg("progress"))
  /\ \E id \in DOMAIN jobStore :
       /\ jobStore[id].logs = <<Msg("progress")>>
       /\ jobStore[id].updatedAt < now
  /\ StaleJobId \notin DOMAIN jobStore

\* s is an initial part of t.
IsPrefix(s, t) == Len(s) <= Len(t) /\ SubSeq(t, 1, Len(s)) = s

\* C23: under every interleaving of addJobLog and updateJob calls on a job
\* (made directly or through the logging tools) its log only grows at the
\* end: an append adds exactly its message as the last entry, once, and an
\* update leaves the log as it is, so that no entry is lost, overwritten or
\* reordered and the earlier log is always an initial part of the later one.
C23_LogAppendOnly ==
  [][\A id \in DOMAIN jobStore :
       /\ (IsCall({"addJobLog", "logProgress"}) /\ lastCall'.id = id) =>
            /\ id \in DOMAIN jobStore'
            /\ jobStore'[id].logs = Append(jobStore[id].logs, lastCall'.message)
       /\ (IsCall({"updateJob", "updateJobStatus"}) /\ lastCall'.id = id) =>
            /\ id \in DOMAIN jobStore'
            /\ jobStore'[id].logs = jobStore[id].logs
       /\ (IsCall({"addJobLog", "logProgress", "updateJob", "updateJobStatus"})) =>
            /\ id \in DOMAIN jobStore'
            /\ IsPrefix(jobStore[id].logs, jobStore'[id].logs)]_vars

C23_Witness ==
  /\ lastCall.op = "updateJob"
  /\ lastCall.id \in DOMAIN jobStore
  /\ lastCall.updates = [status |-> "failed", error |-> Msg("agent gave up")]
  /\ jobStore[lastCall.id].logs = <<SandboxLog(Msg("progress"))>>
  /\ jobStore[lastCall.id].status = "failed"
  /\ jobStore[lastCall.id].error = Msg("agent gave up")

\* C24: a createJob, updateJob or addJobLog call on one job (made directly or
\* through the logging tools) leaves the record of every other stored job as
\* it was, in every order of the calls on the jobs.
C24_JobsIndependent ==
  [][\A b \in DOMAIN jobStore :
       (storeOps' # storeOps /\ lastCall'.id # b) =>
         /\ b \in DOMAIN jobStore'
         /\ jobStore'[b] = jobStore[b]]_vars

C24_Witness ==
  /\ DOMAIN jobStore = {generateJobId(0, "a"), generateJobId(0, "b")}
  /\ lastCall.op = "updateJob"
  /\ lastCall.id = generateJobId(0, "a")
  /\ jobStore[generateJobId(0, "a")].status = "completed"
  /\ jobStore[generateJobId(0, "a")].resultPR = 41
  /\ jobStore[generateJobId(0, "b")] =
       [id |-> generateJobId(0, "b"), status |-> "pending", resultPR |-> 0,
        error |-> NoText, logs |-> <<>>, createdAt |-> 0, updatedAt |-> 0]

\* createJob stored a record under an id the store did not hold.
CreateStep ==
  IsCall({"createJob"}) =>
    /\ lastCall'.id \notin DOMAIN jobStore
    /\ lastCall'.id \in DOMAIN jobStore'
    /\ jobStore'[lastCall'.id].status = "pending"
    /\ jobStore'[lastCall'.id].logs = <<>>
    /\ \A id \in DOMAIN jobStore : jobStore'[id] = jobStore[id]

\* C25: createJob always adds a record with status 'pending' and an empty log
\* under an id that no stored job has, and overwrites no stored job; no call
\* removes a job, so the set of stored ids only grows.
C25_CreateAddsFreshJob ==
  [][CreateStep /\ DOMAIN jobStore \subseteq DOMAIN jobStore']_vars

\* The fields of BackportJob the model keeps.
JobFields == {"id", "status", "resultPR", "error", "logs", "createdAt", "updatedAt"}

\* C26: updateJob on a stored id stores and returns the record with exactly
\* the fields named in the update replaced by the given values and updatedAt
\* set from the clock (never earlier than before); id, createdAt, the log and
\* every field not named are as they were.  On an unknown id it returns null
\* and the store is as it was.
C26_UpdateReplacesGivenFields ==
  [][IsCall({"updateJob"}) =>
       IF lastCall'.id \in DOMAIN jobStore
       THEN /\ DOMAIN jobStore' = DOMAIN jobStore
            /\ lastCall'.ret = jobStore'[lastCall'.id]
            /\ \A f \in JobFields :
                 jobStore'[lastCall'.id][f] =
                   IF f = "updatedAt" THEN now
                   ELSE IF f \in DOMAIN lastCall'.updates THEN lastCall'.updates[f]
                   ELSE jobStore[lastCall'.id][f]
            /\ jobStore'[lastCall'.id].updatedAt >= jobStore[lastCall'.id].updatedAt
            /\ jobStore'[lastCall'.id].id = lastCall'.id
            /\ jobStore'[lastCall'.id].createdAt = jobStore[lastCall'.id].createdAt
            /\ jobStore'[lastCall'.id].logs = jobStore[lastCall'.id].logs
            /\ \A id \in DOMAIN jobStore \ {lastCall'.id} : jobStore'[id] = jobStore[id]
       ELSE /\ lastCall'.ret = [id |-> "none"]
            /\ jobStore' = jobStore]_vars

C26_Witness ==
  /\ lastCall.op = "updateJob"
  /\ lastCall.id \in DOMAIN jobStore
  /\ lastCall.updates = [resultPR |-> 41]
  /\ lastCall.ret = jobStore[lastCall.id]
  /\ jobStore[lastCall.id] =
       [id |-> lastCall.id, status |-> "pending", resultPR |-> 41, error |-> NoText,
        logs |-> <<Msg("progress")>>, createdAt |-> 0, updatedAt |-> 2]

\* executeBackport was called and has not returned yet.
ExecutorActive == epc \notin {"idle", "done"}

\* The entries a step added at the end of the run's job log.
AddedLogs == SubSeq(jobStore'[jobId].logs, Len(Job.logs) + 1, Len(jobStore'[jobId].logs))

\* A step of the executor only appends '[Sandbox] ' entries to the job.
ExecutorStep ==
  (ExecutorActive /\ jobId \in DOMAIN jobStore) =>
    /\ jobStore'[jobId].status = Job.status
    /\ jobStore'[jobId].resultPR = Job.resultPR
    /\ jobStore'[jobId].error = Job.error
    /\ IsPrefix(Job.logs, jobStore'[jobId].logs)
    /\ \A i \in 1..Len(AddedLogs) : SubSeq(AddedLogs[i], 1, 1) = <<"[Sandbox] ">>
    /\ wpc' = wpc

\* A write of status, resultPR or error is a step of the handler or the workflow.
StatusWriteStep ==
  (jobId \in DOMAIN jobStore /\
   <<jobStore'[jobId].status, jobStore'[jobId].resultPR, jobStore'[jobId].error>> #
     <<Job.status, Job.resultPR, Job.error>>) =>
    /\ ~ExecutorActive
    /\ epc' = epc
    /\ hpc' # hpc \/ wpc' # wpc

\* C27: while executeBackport runs (resolveConflictWithAI included) the job's
\* status, resultPR and error stay as they are and the only change to the
\* record is log entries appended through onLog; every write of the status in
\* a run is made by the handler or the workflow.
C27_ExecutorOnlyLogs == [][ExecutorStep /\ StatusWriteStep]_vars

C27_Witness ==
  /\ epc = "finally"
  /\ ~pendingResult.success
  /\ pendingResult.error = ErrConflict(1)
  /\ Job.status = "in_progress"
  /\ Job.error = NoText
  /\ InSeq(SandboxLog(<<"Backport failed: ">> \o ErrConflict(1)), Job.logs)

\* An exception caught by lines 327-333 becomes the value to return.
ExceptionCaught ==
  epc = "catch" =>
    /\ epc' = "finally"
    /\ pendingResult'.success = FALSE
    /\ pendingResult'.error = eErr
    /\ eErr' = eErr

\* After an exception the executor does no more work: it goes on to its
\* return and starts nothing again.
NoRetry ==
  epc \in {"catch", "finally", "done"} =>
    /\ epc' \in {"finally", "done"}
    /\ epc' # "catch"
    /\ execCalls' = execCalls
    /\ picked' = picked
    /\ remoteCmds' = remoteCmds
    /\ branchCommits' = branchCommits
    /\ eErr' = eErr

\* Once called, the executor is never back at its start.
NoRestart == epc # "idle" => epc' # "idle"

ExecutorStepC28 == ExceptionCaught /\ NoRetry /\ NoRestart

\* The run is over and never called the executor.
OverWithoutExecutor ==
  /\ hpc = "done"
  /\ wpc \in {"idle", "returned", "thrown"}
  /\ epc = "idle"
  /\ execCalls = 0

\* What executeBackport gave its caller once it is over.
ExecutorReturned ==
  /\ execCalls <= 1
  /\ epc = "done" =>
       /\ wpc # "catch" => execCalls = 1
       /\ eErr # NoText =>
            /\ execResult.success = FALSE
            /\ execResult.error = eErr
       /\ eErr = NoText => execResult.success = TRUE
  /\ thrownBy = "performBackport" =>
       /\ wErr = ErrCredentials
       /\ execCalls = 0
       /\ epc = "idle"

\* C28: every exception raised inside executeBackport (the sandbox could
\* not be provisioned, a clone, fetch, checkout, cherry-pick, commit or push
\* command failed, among them a command cut short by the sandbox's time
\* limit) is caught and becomes the result success = false with error = the
\* exception's message. executeBackport is called at most once in a run,
\* does nothing more of its work after the exception, never passes an
\* exception on to performBackport, and once started it always returns:
\* every run either ends without calling it or reaches its return.
C28_ExceptionsBecomeFailure ==
  /\ [][ExecutorStepC28]_vars
  /\ []ExecutorReturned
  /\ <>(epc = "done" \/ OverWithoutExecutor)

C28_Witness ==
  /\ epc = "done"
  /\ eErr = ErrPush
  /\ execResult.success = FALSE
  /\ execResult.error = ErrPush
  /\ stopCalls = <<"threw">>
  /\ Len(picked) = MaxCommits

\* The log of the run's job, empty before the job is created.
RunLogs == IF jobId \in DOMAIN jobStore THEN Job.logs ELSE <<>>

AcknowledgeDone == reactions > 0 /\ InSeq(Msg("Request acknowledged"), RunLogs)

FetchStarted == InSeq(Msg("Fetching PR details..."), RunLogs)

FetchDone == prCommits # <<>> /\ InSeq(Msg("PR title"), RunLogs)

ValidateStarted == InSeq(Msg("Validating target branch"), RunLogs)

ValidateDone == targetExists /\ InSeq(Msg("Target branch exists"), RunLogs)

AnalyzeStarted ==
  oracleCalls # <<>> \/ InSeq(Msg("Analyzing changes with AI..."), RunLogs)

\* Both analyses returned: analyzeDiff, then analyzeBackportFeasibility.
AnalyzeDone ==
  /\ Len(oracleCalls) >= 2
  /\ SubSeq(oracleCalls, 1, 2) =
       <<OracleCall("analyzeDiff", 0, 0), OracleCall("analyzeBackportFeasibility", 0, 0)>>
  /\ analysis # NoAnalysis
  /\ InSeq(Msg("AI Analysis complete:"), RunLogs)

ExecuteStarted == execCalls > 0 \/ epc # "idle"

ExecuteSucceeded == epc = "done" /\ execResult.success

\* The workflow's positions in the order of lines 63-185.
StepRank(pos) ==
  CASE pos \in {"idle", "acknowledge"} -> 1
    [] pos = "fetch" -> 2
    [] pos = "validate" -> 3
    [] pos = "analyze" -> 4
    [] pos \in {"gate", "refuse", "refused", "perform", "executing"} -> 5
    [] pos \in {"catch", "thrown"} -> 0
    [] OTHER -> 6

\* A step of the workflow either stays in the sequence, moving forward by at
\* most one step, or leaves it for the catch block (rank 0) for good.
StepsInOrder ==
  (wpc' # wpc /\ StepRank(wpc') # 0 /\ StepRank(wpc) # 0) =>
    /\ StepRank(wpc') >= StepRank(wpc)
    /\ StepRank(wpc') <= StepRank(wpc) + 1

CatchIsFinal == StepRank(wpc) = 0 => StepRank(wpc') = 0

StepsGuarded ==
  /\ (FetchStarted \/ StepRank(wpc) >= 2) => AcknowledgeDone
  /\ (ValidateStarted \/ StepRank(wpc) >= 3) => FetchDone
  /\ (AnalyzeStarted \/ StepRank(wpc) >= 4) => ValidateDone
  /\ (ExecuteStarted \/ wpc \in {"gate", "refuse", "refused", "perform", "executing"}) =>
       AnalyzeDone
  /\ ExecuteStarted => ~(~analysis.canBackport /\ analysis.confidence > 80)
  /\ reportCalls # <<>> =>
       \/ ~ExecuteStarted /\ ~analysis.canBackport /\ analysis.confidence > 80
       \/ epc = "done"
  /\ (pulls # <<>> \/
      InSeq(OracleCall("generateBackportPRDescription", 0, 0), oracleCalls)) =>
       ExecuteSucceeded
  /\ wpc = "catch" /\ thrownBy = "acknowledgeRequest" => ~FetchStarted
  /\ wpc = "catch" /\ thrownBy = "fetchPRDetails" => ~ValidateStarted
  /\ wpc = "catch" /\ thrownBy = "validateTargetBranch" => ~AnalyzeStarted
  /\ wpc = "catch" /\ thrownBy = "analyzeChangesWithAI" => ~ExecuteStarted
  /\ wpc = "catch" /\ thrownBy \in
       {"acknowledgeRequest", "fetchPRDetails", "validateTargetBranch",
        "analyzeChangesWithAI", "performBackport"} =>
         reportCalls = <<>> /\ pulls = <<>>

\* C29: the steps of a run occur in the order Acknowledge, FetchDetails,
\* ValidateTargetBranch, Analyze, Execute, Report, and a step starts only
\* when the one before it completed without an exception: executeBackport
\* is called only after the details were fetched, the target branch was
\* found and both analyses returned (and the gate let them pass), and a
\* result PR is opened only after executeBackport returned success.
C29_StepsInOrder == [][StepsInOrder /\ CatchIsFinal]_vars /\ []StepsGuarded

C29_Witness ==
  /\ pulls # <<>>
  /\ ExecuteSucceeded
  /\ AcknowledgeDone /\ FetchDone /\ ValidateDone /\ AnalyzeDone
  /\ Len(prCommits) = MaxCommits
  /\ Len(oracleCalls) > 3

\* The oracle was asked about the file, whose regions are known.
OracleAsked == parser.pos = "called"

\* The arguments carry a region: its incoming lines in originalChange
\* (theirs), its target-branch lines in fileContext (ours).
RegionGiven(region) ==
  /\ Carries(parser.call.originalChange, SectionText(region.theirs))
  /\ Carries(parser.call.fileContext, SectionText(region.ours))

\* C30: the conflicted file is parsed into one (ours, theirs) pair per
\* region, in the file's order, and the oracle is given the ours and theirs
\* content of every region of the file, theirs being the incoming change
\* and ours the target branch's content.
C30_EveryRegionGiven ==
  OracleAsked =>
    /\ parser.call.conflictContent = parser.conflictContent
    /\ \A i \in 1..Len(parser.regions) : RegionGiven(parser.regions[i])

\* resolveConflictWithAI is running for the current file.
InResolve == epc \in {"resolve", "oracle", "apply"}

\* A file without conflict markers, or one that cannot be read, is given up
\* at once.
GivenUpUnread ==
  (epc = "resolve" /\ fileRead' \in {"plain", "missing", "threw"}) =>
    /\ epc' = "resolved?"
    /\ resolveRet' = "unresolved"
    /\ oracleCalls' = oracleCalls
    /\ written' = written /\ writeCalls' = writeCalls
    /\ staged' = staged /\ stageCalls' = stageCalls

\* The oracle and the sandbox are reached only with a file that was read and
\* holds conflict markers.
OracleOnlyOnMarkers ==
  (oracleCalls' # oracleCalls \/ writeCalls' # writeCalls \/ stageCalls' # stageCalls) =>
    (InResolve => fileRead = "markers" /\ fileRead' = "markers")

\* No step of resolveConflictWithAI hands an exception to executeBackport:
\* it goes on, or returns; an oracle call that gave no resolution and a
\* write that did not happen return 'unresolved'.
NothingPropagates ==
  InResolve =>
    /\ epc' \in {"oracle", "apply", "resolved?"}
    /\ eErr' = eErr
    /\ (epc = "oracle" /\ epc' = "resolved?") => resolveRet' = "unresolved"
    /\ (epc = "apply" /\ conflicting[fileIdx] \notin written') => resolveRet' = "unresolved"

ResolveStep == GivenUpUnread /\ OracleOnlyOnMarkers /\ NothingPropagates

\* C31: a file reported as conflicted that holds no conflict markers, or
\* cannot be read, is returned as unresolved by resolveConflictWithAI without
\* an oracle call, a write or a staging; an exception inside
\* resolveConflictWithAI (of the read, the oracle, the write or the staging)
\* also gives 'unresolved' and never reaches executeBackport's catch block
\* as an exception of its own.
C31_UnreadableUnresolved == [][ResolveStep]_vars

C31_Witness ==
  /\ epc = "resolved?"
  /\ fileRead = "plain"
  /\ resolveRet = "unresolved"
  /\ fileIdx = 2
  /\ written = {1}
  /\ Len(oracleCalls) = 3

\* The commit command of this step exited with a code other than 0.
CommitFailed ==
  \E i \in 1..Len(AddedLogs) : SubSeq(AddedLogs[i], 1, 2) = <<"[Sandbox] ", "  Exit code: ">>

\* The status asked for after it listed nothing.
TreeClean ==
  ~\E i \in 1..Len(AddedLogs) : SubSeq(AddedLogs[i], 1, 2) = <<"[Sandbox] ", "  ">>

\* The loop of line 189 goes on with the next commit, or leaves for the push.
LoopGoesOn ==
  /\ cpIdx' = cpIdx + 1
  /\ epc' = IF cpIdx < Len(prCommits) THEN "cherryPick" ELSE "push"
  /\ eErr' = eErr

CommitStep ==
  epc = "commit" =>
    /\ (CommitFailed /\ TreeClean) =>
         /\ skipped' = Append(skipped, prCommits[cpIdx])
         /\ branchCommits' = branchCommits
         /\ LoopGoesOn
    /\ (CommitFailed /\ ~TreeClean) =>
         /\ epc' = "catch"
         /\ eErr' = ErrCommit
         /\ skipped' = skipped /\ branchCommits' = branchCommits
    /\ ~CommitFailed =>
         /\ branchCommits' = Append(branchCommits, prCommits[cpIdx])
         /\ skipped' = skipped
         /\ LoopGoesOn
    /\ epc' = "catch" => CommitFailed /\ ~TreeClean

\* A skipped commit does not fail the run by itself.
SkippedIsNoError ==
  /\ (epc = "done" /\ eErr = NoText) => execResult.success
  /\ eErr = ErrCommit =>
       /\ ~InSeq(prCommits[cpIdx], skipped)
       /\ ~InSeq(prCommits[cpIdx], branchCommits)

\* C32: when the commit command for a commit fails and the status lists
\* nothing, the commit is skipped as already applied, the loop goes on with
\* the next commit and the run can still succeed; a commit command that
\* fails with a status that lists something throws 'Failed to commit', and
\* that is the only failure the commit step produces.
C32_EmptyCommitSkipped == [][CommitStep]_vars /\ []SkippedIsNoError

C32_Witness ==
  /\ epc = "done"
  /\ execResult.success
  /\ Len(prCommits) = MaxCommits
  /\ skipped = <<prCommits[1]>>
  /\ branchCommits = <<prCommits[2]>>

\* The cherry-pick of this step exited with a code other than 0.
CherryPickFailed ==
  InSeq(SandboxLog(Msg("Cherry-pick failed, checking for conflicts...")), AddedLogs)

\* The oracle's calls about a commit.
CallsAbout(c) == {i \in 1..Len(oracleCalls) : oracleCalls[i].commit = c}

CherryPickStep ==
  (epc = "cherryPick" /\ CherryPickFailed /\ ConflictingOf(listing') = <<>>) =>
    /\ epc' = "catch"
    /\ eErr' = <<"Cherry-pick failed">>
    /\ oracleCalls' = oracleCalls
    /\ conflictFiles' = conflictFiles
    /\ branchCommits' = branchCommits

\* After the error 'Cherry-pick failed': no oracle call about the commit, no
\* commit of it or of a later one, no command against the remote branch, and
\* a failure result with that error, which is not the error of a conflict.
ToolFailureEndsRun ==
  eErr = <<"Cherry-pick failed">> =>
    /\ epc \in {"catch", "finally", "done"}
    /\ CallsAbout(prCommits[cpIdx]) = {}
    /\ \A i \in cpIdx..Len(prCommits) :
         ~InSeq(prCommits[i], branchCommits) /\ ~InSeq(prCommits[i], skipped)
    /\ Len(picked) = cpIdx
    /\ ~InSeq(prCommits[cpIdx], aborted)
    /\ remoteCmds = <<>>
    /\ pulls = <<>>
    /\ \A f \in 1..MaxFiles : eErr # ErrConflict(f)
    /\ epc = "done" => (~execResult.success /\ execResult.error = eErr)

\* C33: a cherry-pick that exits non-zero while the status lists no
\* conflicted file throws 'Cherry-pick failed', an error of its own and not
\* the one of a content conflict: the oracle is not asked about the commit,
\* no commit is created for it or for a later commit, and nothing is pushed.
C33_ToolFailureNotConflict == [][CherryPickStep]_vars /\ []ToolFailureEndsRun

C33_Witness ==
  /\ epc = "done"
  /\ execResult.error = <<"Cherry-pick failed">>
  /\ cpIdx = 2
  /\ Len(branchCommits) = 1
  /\ Len(oracleCalls) = 3
  /\ remote = StaleBranch

(***************************************************************************)
(* The order of the resolutions within one cherry-pick.                    *)
(***************************************************************************)

\* The calls the step adds to the oracle's history.
AddedOracleCalls == SubSeq(oracleCalls', Len(oracleCalls) + 1, Len(oracleCalls'))

\* The files of the current cherry-pick listed before the one in hand.
EarlierFiles == {conflicting[k] : k \in 1..(fileIdx - 1)}

\* The step asks the oracle for the resolution of a file.
AsksResolution ==
  \E i \in 1..Len(AddedOracleCalls) : AddedOracleCalls[i].op = "suggestConflictResolution"

\* A step that asks the oracle for a resolution asks it about the file in hand
\* only, after the write and the git add of every earlier file of the
\* cherry-pick returned, and with no file of the cherry-pick given up.
OracleStep ==
  (IsPrefix(oracleCalls, oracleCalls') /\ AsksResolution) =>
    /\ epc = "oracle"
    /\ \A i \in 1..Len(AddedOracleCalls) :
         /\ AddedOracleCalls[i].commit = CurrentCommit
         /\ AddedOracleCalls[i].file = conflicting[fileIdx]
    /\ \A f \in EarlierFiles :
         /\ f \in written
         /\ f \in stageCalls
         /\ \E i \in CallsAbout(CurrentCommit) : oracleCalls[i].file = f
    /\ \A i \in 1..Len(unresolved) : unresolved[i][1] # CurrentCommit

\* The oracle's history names the files of one commit in the order of the
\* listing (a file is named by its position in it).
OracleInListingOrder ==
  \A i, j \in 1..Len(oracleCalls) :
    (i < j /\ oracleCalls[i].commit = oracleCalls[j].commit) =>
      oracleCalls[i].file <= oracleCalls[j].file

\* The file a cherry-pick was given up on is the last one of that commit the
\* oracle heard of.
NothingAfterUnresolved ==
  \A u \in 1..Len(unresolved) :
    \A i \in CallsAbout(unresolved[u][1]) : oracleCalls[i].file <= unresolved[u][2]

\* C34: within one cherry-picked commit the conflicted files are resolved one
\* after the other in the order of the listing: the oracle is asked about a
\* file only after the accepted content of every earlier file of the commit
\* was written and git add was run on it, and once a file is unresolved no
\* further file of that commit is sent to the oracle.
C34_SequentialResolution ==
  /\ [][OracleStep]_vars
  /\ []OracleInListingOrder
  /\ []NothingAfterUnresolved

\* The oracle was asked about the second file of a cherry-pick whose first
\* file is written and staged.
C34_Witness ==
  /\ epc = "apply"
  /\ Len(conflicting) = 2
  /\ fileIdx = 2
  /\ conflicting[1] \in written
  /\ conflicting[1] \in stageCalls
  /\ \E i, j \in CallsAbout(CurrentCommit) :
       /\ i < j
       /\ oracleCalls[i].file = conflicting[1]
       /\ oracleCalls[j].file = conflicting[2]

(***************************************************************************)
(* What the validation step reports when a host call fails.                *)
(***************************************************************************)

\* validateTargetBranch threw its error: the text says the branch does not
\* exist and the error is not retried.
ReportsMissingBranch ==
  /\ thrownBy = "validateTargetBranch"
  /\ wErr = <<"Target branch 'T' ", "does not exist">>
  /\ wFatal

\* C35: validateTargetBranch reports "Target branch '<name>' does not exist"
\* as a non-retryable error only when the branch is absent on the host: a
\* failure of the branch lookup or of the commit listing for a branch that
\* exists is not reported as a missing branch.
C35_MissingOnlyWhenAbsent == ReportsMissingBranch => ~targetExists

(***************************************************************************)
(* The installation token in what a run records.                           *)
(***************************************************************************)

\* The text holds the installation token.
HoldsToken(text) == InSeq("ghs_installation_token", text)

\* C36: the installation token never appears in a job log entry, in the
\* error of the executor's result, in the job's error field or in a failure
\* comment: every occurrence of it in a logged command line, in a command's
\* output and in an error derived from that output is masked.
C36_TokenNeverRecorded ==
  /\ \A i \in 1..Len(git.logs) : ~HoldsToken(git.logs[i])
  /\ ~HoldsToken(git.error)
  /\ ~HoldsToken(git.jobError)
  /\ ~HoldsToken(git.comment)

(***************************************************************************)
(* The result pull request and the state the job ends in.                  *)
(***************************************************************************)

\* C37: a run that ends with the job 'failed' opened no result pull request;
\* a result pull request exists only if the job ends 'completed' with
\* resultPR set to that pull request's number.
C37_FailedRunOpensNoPR ==
  WorkflowEnded =>
    /\ Job.status = "failed" => pulls = <<>>
    /\ pulls # <<>> =>
         /\ Job.status = "completed"
         /\ Job.resultPR = pulls[Len(pulls)].number

(***************************************************************************)
(* The files a cherry-pick leaves unmerged and the commit that follows.    *)
(***************************************************************************)

\* The files the status listing of the cherry-pick in hand names.
UnmergedFiles == {listing[i].path : i \in 1..Len(listing)}

\* The step creates the backport commit of the cherry-pick in hand.
CreatesCommit == epc = "commit" /\ branchCommits' # branchCommits

\* C38: the backport commit of a cherry-pick is created only when no file of
\* it remains conflicted: every file the cherry-pick left unmerged, whatever
\* its status (UU, AA, DD, DU, UD, AU, UA), was resolved through
\* resolveConflictWithAI (written and staged by it) before the commit, or the
\* attempt failed; none is staged by `git add -A` and committed unresolved.
C38_NoUnresolvedCommitted ==
  [][CreatesCommit => \A f \in UnmergedFiles : f \in written /\ f \in stageCalls]_vars

(***************************************************************************)
(* What the deletion before the push removes.                              *)
(***************************************************************************)

\* C39: the deletion of the remote branch that precedes the push removes
\* only a branch left by a previous failed attempt: never the branch that
\* backs the result pull request of an earlier successful run, and, with two
\* jobs for the same pull request and target branch running at once, never
\* the branch the other job has just pushed.
C39_DeletesOnlyFailedAttempts ==
  \A j \in DOMAIN race.removed :
    /\ race.removed[j] # "earlier_result"
    /\ race.removed[j] \notin {"job_a", "job_b"}
    /\ race.removed[j] \in {"none", "failed_attempt"}

====
